---- MODULE Spec2Model ----
(***************************************************************************)
(* Model of node-cassandra: the connection object with its pre-connection  *)
(* queue (lib/cassandra.js), the table lifecycle of a column family and    *)
(* createView (lib/column-family.js, lib/schema.js) and the query and      *)
(* mutation compilers with find, findOne, update, delete (lib/model.js).   *)
(* Spec runs the connection, SpecWhere the WHERE compiler, SpecFind find   *)
(* and findOne, SpecMutate update and delete, SpecView createView.         *)
(***************************************************************************)
EXTENDS Integers, Sequences, FiniteSets, TLC

\* ------------------------------------------------------------------ bounds
MaxModels == 1
MaxViews == 2
MaxIndexes == 1
MaxConnects == 2
MaxBuildCalls == 2
MaxFailures == 1
MaxAdhoc == 1

Models == 1..MaxModels
DrainIds == 1..MaxConnects

\* ------------------------------------------------- statements sent to driver
\* A statement is <<model, kind, n>>; model 0 is the connection itself.
KeyspaceStmt == <<0, "ks", 0>>
TableStmt(m) == <<m, "table", 0>>
ViewStmts(m, nv) == {<<m, "view", i>> : i \in 1..nv}
IndexStmts(m, ni) == {<<m, "index", i>> : i \in 1..ni}
AdhocIndexStmt(m) == <<m, "xindex", 0>>

Stmts ==
    {KeyspaceStmt}
    \cup {TableStmt(m) : m \in Models}
    \cup UNION {ViewStmts(m, MaxViews) : m \in Models}
    \cup UNION {IndexStmts(m, MaxIndexes) : m \in Models}
    \cup {AdhocIndexStmt(m) : m \in Models}

VARIABLES
    connected,    \* cassandra.connected
    queue,        \* cassandra.queue: deferred executables, in push order
    nextSeq,      \* number of executables pushed so far
    enq,          \* per statement: position of its executable in push order (0: never queued)
    pendingConn,  \* driver.connect calls whose callback has not fired yet
    connectCalls, \* connect() calls made so far
    driverUp,     \* the driver has established its connection
    drain,        \* per connect callback: the eachSeries run over the spliced queue
    drainCount,   \* eachSeries runs started so far
    inflight,     \* driver.execute calls that have not called back yet
    issued,       \* per statement: times handed to driver.execute
    completed,    \* per statement: times the driver called back
    errored,      \* statements whose driver callback carried an error
    ms,           \* per model: the ColumnFamily object and its build
    thrown        \* exception thrown by the last API call, "none" if it returned

VARIABLES
    listeners,    \* the events ('error', 'connect') the connection has listeners for
    pendingCb,    \* of the pending driver.connect calls, those whose connect() got a callback
    drainCb,      \* per eachSeries run: its connect() got a callback
    notices,      \* how often connect callbacks and listeners were called, by kind
    reports       \* per statement: who was handed the error of its execution, and how often

VARIABLES
    inQuery,      \* the query object passed to the operation under test
    call,         \* the operation called with its other arguments ("none" before the call)
    sent,         \* statements handed to driver.execute, with their bound values
    raised,       \* exception thrown synchronously by the call, "none" if it returned
    delivered,    \* what the caller's callback has received, in order
    applied       \* statements the engine has applied to the table

VARIABLES
    modelPrimaryKeys, \* model.primaryKeys of the base table
    viewConfig,       \* the view configuration object handed to createView
    views,            \* model.views: the registered view names
    viewLog           \* the createView calls made, with their outcomes

VARIABLES
    instance,     \* the enumerable column properties of the ModelInstance
    data,         \* instance.__$$object: the stored values, by the keys it has
    synced,       \* instance.__$$synced
    instPending,  \* model.insert / model.update calls that have not called back
    instCalls,    \* save(), sync() and delete() calls made so far
    instEdits,    \* assignments made to the instance's columns so far
    instErr,      \* the err the last save/sync callback received ("none": no error)
    lastSynced,   \* per column: the value at construction or of the last write the database accepted
    restored,     \* restore() was the last operation on the instance
    instKeys,     \* model.primaryKeys of the instance's model
    instOp,       \* the last operation on the instance
    instWhere     \* the query object the last save() or delete() built

dmlVars == <<inQuery, call, sent, raised, delivered, applied>>

instVars == <<instance, data, synced, instPending, instCalls, instEdits, instErr,
              lastSynced, restored, instKeys, instOp, instWhere>>

viewVars == <<modelPrimaryKeys, viewConfig, views, viewLog>>

noticeVars == <<listeners, pendingCb, drainCb, notices, reports>>

connVars == <<connected, queue, nextSeq, enq, pendingConn, connectCalls, driverUp,
              drain, drainCount, inflight, issued, completed, errored, ms, thrown,
              noticeVars>>

vars == <<connVars, dmlVars, viewVars, instVars>>

NoEntry == [seq |-> 0, stmts |-> {}]
IdleDrain == [active |-> FALSE, cur |-> NoEntry, rest |-> <<>>, pending |-> {}]
NoModel == [made |-> FALSE, nv |-> 0, ni |-> 0, built |-> FALSE, calls |-> 0,
            hasCb |-> FALSE, phase |-> "none", pending |-> {}, cb |-> 0]

\* Hand the statements S to driver.execute with continuation <<k, n>>.
Requests(S, k, n) == {[s |-> st, k |-> k, n |-> n] : st \in S}
Bump(f, S) == [st \in Stmts |-> IF st \in S THEN f[st] + 1 ELSE f[st]]

\* cassandra.queue.push(fn) for each executable of es, in order
PushAll(q, es) == q \o es
SeqNumbers(es) ==
    [st \in Stmts |->
        IF \E i \in 1..Len(es) : st \in es[i].stmts
        THEN (CHOOSE i \in 1..Len(es) : st \in es[i].stmts) + nextSeq
        ELSE enq[st]]
Entries(sets) == [i \in 1..Len(sets) |-> [seq |-> nextSeq + i, stmts |-> sets[i]]]

\* --------------------------------------------------------------- constructor
\* new Cassandra(options): empty queue, not connected, then setKeyspace()
\* pushes the CREATE KEYSPACE executable.
\* What done() of connect() did so far: callback(err), callback(), emit('error'),
\* emit('connect').
NoNotices == [callbackErr |-> 0, callbackOk |-> 0, errorEvent |-> 0, connectEvent |-> 0]
\* Who received the error of a statement: the callback of the call that made
\* the statement, the callback of connect(), the 'error' listeners.
NoReports == [caller |-> 0, connectCallback |-> 0, errorEvent |-> 0]

\* Mutant: done treats the error as success.
DoneErrIgnored(n, hasCallback) ==
    [n EXCEPT !.connectEvent = IF "connect" \in listeners THEN @ + 1 ELSE @,
              !.callbackOk = IF hasCallback THEN @ + 1 ELSE @]

\* done(err) of connect(): emit('error', err) if there are listeners, then
\* callback(err) if connect() got a function.
DoneErr(n, hasCallback) ==
    [n EXCEPT !.errorEvent = IF "error" \in listeners THEN @ + 1 ELSE @,
              !.callbackErr = IF hasCallback THEN @ + 1 ELSE @]
\* done() of connect(): emit('connect') if there are listeners, then callback().
DoneOk(n, hasCallback) ==
    [n EXCEPT !.connectEvent = IF "connect" \in listeners THEN @ + 1 ELSE @,
              !.callbackOk = IF hasCallback THEN @ + 1 ELSE @]

ConnInit ==
    /\ connected = FALSE
    /\ queue = <<[seq |-> 1, stmts |-> {KeyspaceStmt}]>>
    /\ nextSeq = 1
    /\ enq = [st \in Stmts |-> IF st = KeyspaceStmt THEN 1 ELSE 0]
    /\ pendingConn = 0
    /\ connectCalls = 0
    /\ driverUp = FALSE
    /\ drain = [d \in DrainIds |-> IdleDrain]
    /\ drainCount = 0
    /\ inflight = {}
    /\ issued = [st \in Stmts |-> 0]
    /\ completed = [st \in Stmts |-> 0]
    /\ errored = {}
    /\ ms = [m \in Models |-> NoModel]
    /\ thrown = "none"
    /\ pendingCb = 0
    /\ drainCb = [d \in DrainIds |-> FALSE]
    /\ notices = NoNotices
    /\ reports = [st \in Stmts |-> NoReports]

\* ------------------------------------------------------------------ connect
\* connect(callback): hands a callback to driver.connect and returns.
Connect ==
    /\ connectCalls < MaxConnects
    /\ connectCalls' = connectCalls + 1
    /\ pendingConn' = pendingConn + 1
    /\ \E hasCallback \in BOOLEAN :
          pendingCb' = IF hasCallback THEN pendingCb + 1 ELSE pendingCb
    /\ UNCHANGED <<listeners, drainCb, notices, reports>>
    /\ thrown' = "none"
    /\ UNCHANGED <<connected, queue, nextSeq, enq, driverUp, drain, drainCount,
                   inflight, issued, completed, errored, ms>>
    /\ UNCHANGED <<dmlVars, viewVars, instVars>>

\* driver.connect calls back with an error: done(err), connected untouched.
DriverConnectErr ==
    /\ pendingConn > 0
    /\ ~driverUp
    /\ pendingConn' = pendingConn - 1
    /\ \E hasCallback \in BOOLEAN :
          /\ hasCallback => pendingCb > 0
          /\ ~hasCallback => pendingConn > pendingCb
          /\ pendingCb' = IF hasCallback THEN pendingCb - 1 ELSE pendingCb
          /\ notices' = DoneErr(notices, hasCallback)
    /\ UNCHANGED <<listeners, drainCb, reports>>
    /\ UNCHANGED <<connected, queue, nextSeq, enq, connectCalls, driverUp, drain,
                   drainCount, inflight, issued, completed, errored, ms, thrown>>
    /\ UNCHANGED <<dmlVars, viewVars, instVars>>

\* What the connect callback takes from the queue: queue.splice(0) empties it.
SpliceQueue(q) == [taken |-> q, left |-> <<>>]

\* driver.connect calls back without error: a non-empty queue is spliced and
\* run by async.eachSeries (the first executable is called at once), an empty
\* one goes straight to done().
DriverConnectOk ==
    /\ pendingConn > 0
    /\ pendingConn' = pendingConn - 1
    /\ driverUp' = TRUE
    /\ \E hasCallback \in BOOLEAN :
          /\ hasCallback => pendingCb > 0
          /\ ~hasCallback => pendingConn > pendingCb
          /\ pendingCb' = IF hasCallback THEN pendingCb - 1 ELSE pendingCb
          /\ IF Len(queue) > 0
             THEN LET sp == SpliceQueue(queue)
                      d == drainCount + 1
                      first == Head(sp.taken)
                  IN /\ queue' = sp.left
                     /\ drainCount' = d
                     /\ drain' = [drain EXCEPT ![d] =
                                      [active |-> TRUE, cur |-> first,
                                       rest |-> Tail(sp.taken), pending |-> first.stmts]]
                     /\ drainCb' = [drainCb EXCEPT ![d] = hasCallback]
                     /\ inflight' = inflight \cup Requests(first.stmts, "drain", d)
                     /\ issued' = Bump(issued, first.stmts)
                     /\ UNCHANGED <<connected, notices>>
             ELSE /\ connected' = TRUE
                  /\ notices' = DoneOk(notices, hasCallback)
                  /\ UNCHANGED <<queue, drainCount, drain, drainCb, inflight, issued>>
    /\ UNCHANGED <<listeners, reports>>
    /\ UNCHANGED <<nextSeq, enq, connectCalls, completed, errored, ms, thrown>>
    /\ UNCHANGED <<dmlVars, viewVars, instVars>>

\* ------------------------------------------------------------- _buildSchema
\* The executables _createTable, _createViews and _createIndexes push while
\* disconnected: one for the table, one for the batch of views (if the schema
\* declares views), one for the batch of indexes (if it declares indexes).
\* Mutant: the views executable is pushed before the table's.
BuildEntriesViewsFirst(m, nv, ni) ==
    (IF nv > 0 THEN <<ViewStmts(m, nv)>> ELSE <<>>)
    \o <<{TableStmt(m)}>>
    \o (IF ni > 0 THEN <<IndexStmts(m, ni)>> ELSE <<>>)

BuildEntries(m, nv, ni) ==
    <<{TableStmt(m)}>>
    \o (IF nv > 0 THEN <<ViewStmts(m, nv)>> ELSE <<>>)
    \o (IF ni > 0 THEN <<IndexStmts(m, ni)>> ELSE <<>>)

\* async.series over _createTable, _createViews, _createIndexes: the step
\* after `phase`, with the statements it hands to the driver.  A step without
\* views / indexes calls done() at once.
SeriesNext(phase, m, nv, ni) ==
    IF phase = "table" /\ nv > 0 THEN [phase |-> "views", stmts |-> ViewStmts(m, nv)]
    ELSE IF phase \in {"table", "views"} /\ ni > 0
         THEN [phase |-> "indexes", stmts |-> IndexStmts(m, ni)]
    ELSE [phase |-> "end", stmts |-> {}]

\* The callback of _buildSchema is only referenced by the async.series branch.
SeriesCallback(mrec) ==
    IF mrec.hasCb THEN [mrec EXCEPT !.cb = @ + 1] ELSE mrec

\* The body of _buildSchema behind its guard: the flag is set, then either the
\* async.series is started (connected) or the three steps push their
\* executables, without the callback (not connected).
StartBuild(m, nv, ni, hasCb) ==
    /\ thrown' = "none"
    /\ IF connected
       THEN /\ ms' = [ms EXCEPT ![m] =
                       [made |-> TRUE, nv |-> nv, ni |-> ni, built |-> TRUE,
                        calls |-> ms[m].calls + 1, hasCb |-> hasCb,
                        phase |-> "table", pending |-> {TableStmt(m)}, cb |-> 0]]
            /\ inflight' = inflight \cup Requests({TableStmt(m)}, "series", m)
            /\ issued' = Bump(issued, {TableStmt(m)})
            /\ UNCHANGED <<queue, nextSeq, enq>>
       ELSE LET es == Entries(BuildEntries(m, nv, ni))
            IN /\ ms' = [ms EXCEPT ![m] =
                          [made |-> TRUE, nv |-> nv, ni |-> ni, built |-> TRUE,
                           calls |-> ms[m].calls + 1, hasCb |-> hasCb,
                           phase |-> "queued", pending |-> {}, cb |-> 0]]
               /\ queue' = PushAll(queue, es)
               /\ enq' = SeqNumbers(es)
               /\ nextSeq' = nextSeq + Len(es)
               /\ UNCHANGED <<inflight, issued>>
    /\ UNCHANGED <<connected, pendingConn, connectCalls, driverUp, drain,
                   drainCount, completed, errored>>

\* Mutant: _buildSchema without its __$$built guard.
BuildSchemaUnguarded(m, nv, ni, hasCb) == StartBuild(m, nv, ni, hasCb)

\* model._buildSchema(callback) on the model m with nv views and ni indexes.
BuildSchema(m, nv, ni, hasCb) ==
    IF ms[m].built
    THEN /\ thrown' = "AlreadyBuilt"
         /\ ms' = [ms EXCEPT ![m].calls = @ + 1]
         /\ UNCHANGED <<connected, queue, nextSeq, enq, pendingConn, connectCalls,
                        driverUp, drain, drainCount, inflight, issued, completed,
                        errored>>
    ELSE StartBuild(m, nv, ni, hasCb)

\* cassandra.model(name, schema, callback): a new ColumnFamily, built at once.
Model(m, nv, ni, hasCb) ==
    /\ ~ms[m].made
    /\ BuildSchema(m, nv, ni, hasCb)

\* A later call of model._buildSchema(callback) by the application.
Rebuild(m, hasCb) ==
    /\ ms[m].made
    /\ ms[m].calls < MaxBuildCalls
    /\ BuildSchema(m, ms[m].nv, ms[m].ni, hasCb)

\* model.createIndex(index, done) called by the application.
CreateIndex(m) ==
    /\ ms[m].made
    /\ Cardinality({x \in Models : enq[AdhocIndexStmt(x)] > 0 \/ issued[AdhocIndexStmt(x)] > 0}) < MaxAdhoc
    /\ enq[AdhocIndexStmt(m)] = 0
    /\ issued[AdhocIndexStmt(m)] = 0
    /\ thrown' = "none"
    /\ IF connected
       THEN /\ inflight' = inflight \cup Requests({AdhocIndexStmt(m)}, "adhoc", m)
            /\ issued' = Bump(issued, {AdhocIndexStmt(m)})
            /\ UNCHANGED <<queue, nextSeq, enq>>
       ELSE LET es == Entries(<<{AdhocIndexStmt(m)}>>)
            IN /\ queue' = PushAll(queue, es)
               /\ enq' = SeqNumbers(es)
               /\ nextSeq' = nextSeq + 1
               /\ UNCHANGED <<inflight, issued>>
    /\ UNCHANGED <<connected, pendingConn, connectCalls, driverUp, drain, drainCount,
                   completed, errored, ms>>

\* ------------------------------------------------------- driver completions
\* The driver calls back for request r of drain d (async.eachSeries over the
\* spliced queue; a batch executable is an async.each over its statements).
DrainComplete(r, ok, infl) ==
    LET d == r.n
        dr == drain[d]
        left == dr.pending \ {r.s}
    IN IF ~dr.active \/ r.s \notin dr.pending
       THEN /\ inflight' = infl
            /\ UNCHANGED <<drain, connected, issued>>
       ELSE IF ~ok
       THEN \* next(err): eachSeries stops and calls done(err)
            /\ drain' = [drain EXCEPT ![d] = IdleDrain]
            /\ inflight' = infl
            /\ UNCHANGED <<connected, issued>>
       ELSE IF left # {}
       THEN /\ drain' = [drain EXCEPT ![d].pending = left]
            /\ inflight' = infl
            /\ UNCHANGED <<connected, issued>>
       ELSE IF Len(dr.rest) = 0
       THEN \* done(): connected = true
            /\ drain' = [drain EXCEPT ![d] = IdleDrain]
            /\ connected' = TRUE
            /\ inflight' = infl
            /\ UNCHANGED issued
       ELSE LET nxt == Head(dr.rest)
            IN /\ drain' = [drain EXCEPT ![d] =
                               [active |-> TRUE, cur |-> nxt,
                                rest |-> Tail(dr.rest), pending |-> nxt.stmts]]
               /\ inflight' = infl \cup Requests(nxt.stmts, "drain", d)
               /\ issued' = Bump(issued, nxt.stmts)
               /\ UNCHANGED connected

\* The driver calls back for request r of the async.series build of model m.
SeriesComplete(r, ok, infl) ==
    LET m == r.n
        mrec == ms[m]
        left == mrec.pending \ {r.s}
    IN IF mrec.phase \notin {"table", "views", "indexes"} \/ r.s \notin mrec.pending
       THEN /\ inflight' = infl
            /\ UNCHANGED <<ms, issued>>
       ELSE IF ~ok
       THEN \* the step fails: series stops and calls the final callback(err)
            /\ ms' = [ms EXCEPT ![m] =
                         SeriesCallback([mrec EXCEPT !.phase = "end", !.pending = {}])]
            /\ inflight' = infl
            /\ UNCHANGED issued
       ELSE IF left # {}
       THEN /\ ms' = [ms EXCEPT ![m].pending = left]
            /\ inflight' = infl
            /\ UNCHANGED issued
       ELSE LET nxt == SeriesNext(mrec.phase, m, mrec.nv, mrec.ni)
                stepped == [mrec EXCEPT !.phase = nxt.phase, !.pending = nxt.stmts]
            IN /\ ms' = [ms EXCEPT ![m] =
                            IF nxt.phase = "end" THEN SeriesCallback(stepped) ELSE stepped]
               /\ inflight' = infl \cup Requests(nxt.stmts, "series", m)
               /\ issued' = Bump(issued, nxt.stmts)

\* the eachSeries run of request r is waiting for it
DrainWaits(r) == r.k = "drain" /\ drain[r.n].active /\ r.s \in drain[r.n].pending
\* the async.series build of request r is waiting for it
SeriesWaits(r) ==
    r.k = "series" /\ ms[r.n].phase \in {"table", "views", "indexes"} /\ r.s \in ms[r.n].pending

\* What done of connect() does when request r calls back: done(err) when a
\* queued executable fails, done() when the last one of the run succeeded.
Notified(r, ok) ==
    IF ~DrainWaits(r) THEN notices
    ELSE IF ~ok THEN DoneErr(notices, drainCb[r.n])
    ELSE IF drain[r.n].pending = {r.s} /\ Len(drain[r.n].rest) = 0
    THEN DoneOk(notices, drainCb[r.n])
    ELSE notices

\* Who is handed the error of request r: done(err) of connect() for a queued
\* executable, the callback of _buildSchema (if it is a function) for a step
\* of its async.series, the done function of createIndex for its statement.
Reported(r, ok) ==
    IF ok THEN reports
    ELSE IF r.k = "drain"
    THEN IF ~DrainWaits(r) THEN reports
         ELSE [reports EXCEPT ![r.s] =
                 [@ EXCEPT !.errorEvent = IF "error" \in listeners THEN @ + 1 ELSE @,
                           !.connectCallback = IF drainCb[r.n] THEN @ + 1 ELSE @]]
    ELSE IF r.k = "series"
    THEN IF SeriesWaits(r) /\ ms[r.n].hasCb
         THEN [reports EXCEPT ![r.s].caller = @ + 1]
         ELSE reports
    ELSE [reports EXCEPT ![r.s].caller = @ + 1]

\* driver.execute calls back for request r, with an error iff ~ok.
DriverComplete(r, ok) ==
    /\ r \in inflight
    /\ ok \/ Cardinality(errored) < MaxFailures
    /\ completed' = Bump(completed, {r.s})
    /\ errored' = IF ok THEN errored ELSE errored \cup {r.s}
    /\ notices' = Notified(r, ok)
    /\ reports' = Reported(r, ok)
    /\ UNCHANGED <<listeners, pendingCb, drainCb>>
    /\ CASE r.k = "drain" -> DrainComplete(r, ok, inflight \ {r}) /\ UNCHANGED ms
         [] r.k = "series" -> SeriesComplete(r, ok, inflight \ {r}) /\ UNCHANGED <<drain, connected>>
         [] OTHER -> /\ inflight' = inflight \ {r}
                     /\ UNCHANGED <<drain, connected, issued, ms>>
    /\ UNCHANGED <<queue, nextSeq, enq, pendingConn, connectCalls, driverUp,
                   drainCount, thrown>>


\* =================================================== query / mutation compilers
\* The schema the compilers are exercised with: two primary-key columns, a
\* plain column and one column of each collection type.
Columns == {"username", "age", "name", "tags", "friends", "attrs"}
PrimaryKeyColumns == {"username", "age"}
UnknownColumn == "zz"

\* schema.model[column]: the declared type, "undefined" for an undeclared key
DataModel(c) ==
    CASE c = "username" -> "text"
      [] c = "age" -> "int"
      [] c = "name" -> "text"
      [] c = "tags" -> "list"
      [] c = "friends" -> "set"
      [] c = "attrs" -> "map"
      [] OTHER -> "undefined"

\* OperatorMap and FilterMap: the text an operator key maps to, "" if unmapped
OperatorMap(op) ==
    CASE op = "$gt" -> ">"
      [] op = "$gte" -> ">="
      [] op = "$lt" -> "<"
      [] op = "$lte" -> "<="
      [] op = "$eq" -> "="
      [] OTHER -> ""
FilterMap(op) ==
    CASE op = "$in" -> "IN"
      [] op = "$contains" -> "CONTAINS"
      [] op = "$containsKey" -> "CONTAINS KEY"
      [] OTHER -> ""

\* A value of a query object, by what the compiler looks at: whether it is
\* null, its .length (0 when it has none), isNaN(value), whether it is a Uuid,
\* and its own keys when it is a plain object; an operator entry carries the
\* length of its operand when the operand is an array (isArr).
StrVal == [null |-> FALSE, length |-> 3, nan |-> TRUE, uuid |-> FALSE, ops |-> <<>>]
NumVal == [null |-> FALSE, length |-> 0, nan |-> FALSE, uuid |-> FALSE, ops |-> <<>>]
UuidVal == [null |-> FALSE, length |-> 0, nan |-> TRUE, uuid |-> TRUE, ops |-> <<>>]
NullVal == [null |-> TRUE, length |-> 0, nan |-> FALSE, uuid |-> FALSE, ops |-> <<>>]
OpsVal(ops) == [null |-> FALSE, length |-> 0, nan |-> TRUE, uuid |-> FALSE, ops |-> ops]
OpEntry(op, n) == [op |-> op, n |-> n]

\* value.length || !isNaN(value) || value instanceof Uuid
IsPlainValue(v) == v.length > 0 \/ ~v.nan \/ v.uuid

\* A bound value, named by the place of the query object it comes from.
Bound(col, op, i) == <<col, op, i>>
\* One WHERE clause: the column and operator it compiles, and its text.
Clause(col, op, text) == [col |-> col, op |-> op, text |-> text]

\* new Array(n).join('?,') + '?'
RECURSIVE JoinMarks(_)
JoinMarks(n) == IF n <= 1 THEN <<"?">> ELSE <<"?", ",">> \o JoinMarks(n - 1)

\* _qualifyQueryColumns: the first key that is no declared column, 0 if none
FirstUnknown(obj) ==
    IF \E i \in 1..Len(obj) : DataModel(obj[i].col) = "undefined"
    THEN CHOOSE i \in 1..Len(obj) :
            /\ DataModel(obj[i].col) = "undefined"
            /\ \A j \in 1..(i - 1) : DataModel(obj[j].col) # "undefined"
    ELSE 0

Components(err, where, values, columns) ==
    [err |-> err, where |-> where, values |-> values, columns |-> columns]

\* The inner loop of _buildQueryComponents over the operators of one column.
RECURSIVE CompileOperators(_, _, _)
CompileOperators(col, ops, acc) ==
    IF acc.err # "none" \/ Len(ops) = 0 THEN acc
    ELSE LET e == Head(ops)
             next ==
                IF OperatorMap(e.op) # ""
                THEN [acc EXCEPT
                        !.where = Append(@, Clause(col, e.op,
                                     <<col, OperatorMap(e.op), "=", "?">>)),
                        !.values = Append(@, Bound(col, e.op, 0))]
                ELSE IF FilterMap(e.op) = ""
                THEN [acc EXCEPT !.err = "UnsupportedOperator"]
                ELSE IF e.op = "$in"
                THEN [acc EXCEPT
                        !.values = @ \o [i \in 1..e.n |-> Bound(col, e.op, i)],
                        !.where = Append(@, Clause(col, e.op,
                                     <<col, " ", FilterMap(e.op), " (">>
                                     \o JoinMarks(e.n) \o <<")">>))]
                ELSE [acc EXCEPT
                        !.values = Append(@, Bound(col, e.op, 0)),
                        !.where = Append(@, Clause(col, e.op,
                                     <<col, " ", FilterMap(e.op), " ", "?">>))]
         IN CompileOperators(col, Tail(ops), next)

\* The outer loop of _buildQueryComponents over the qualified columns.
RECURSIVE CompileColumns(_, _)
CompileColumns(obj, acc) ==
    IF acc.err # "none" \/ Len(obj) = 0 THEN acc
    ELSE LET col == Head(obj).col
             v == Head(obj).val
             next ==
                IF v.null THEN [acc EXCEPT !.err = "TypeError"]
                ELSE IF IsPlainValue(v)
                THEN [acc EXCEPT
                        !.values = Append(@, Bound(col, "=", 0)),
                        !.where = Append(@, Clause(col, "=", <<col, "=", "?">>))]
                ELSE CompileOperators(col, v.ops, acc)
         IN CompileColumns(Tail(obj), next)

\* _buildQueryComponents(queryObject); a null query object has no keys.
BuildQueryComponents(obj) ==
    IF FirstUnknown(obj) # 0
    THEN Components("UnknownColumn", <<>>, <<>>, <<>>)
    ELSE CompileColumns(obj, Components("none", <<>>, <<>>,
                                         [i \in 1..Len(obj) |-> obj[i].col]))

\* ------------------------------------------------------------ input objects
MaxOps == 2
MaxInLength == 2
MaxQueryColumns == 2

Operators == {"$gt", "$gte", "$lt", "$lte", "$eq", "$in", "$contains", "$containsKey", "$near"}
OpEntries ==
    {OpEntry(op, 1) : op \in Operators \ {"$in"}}
    \cup {OpEntry("$in", n) : n \in 0..MaxInLength}
\* operator objects: up to MaxOps distinct operator keys, in any key order
OpObjects ==
    UNION {{o \in [1..k -> OpEntries] : \A i, j \in 1..k : i # j => o[i].op # o[j].op}
           : k \in 0..MaxOps}
QueryValues == {StrVal, NumVal, UuidVal, NullVal} \cup {OpsVal(o) : o \in OpObjects}
QueryColumns == {"username", "age", UnknownColumn}
OpCount(obj) ==
    LET RECURSIVE Sum(_)
        Sum(i) == IF i = 0 THEN 0 ELSE Len(obj[i].val.ops) + Sum(i - 1)
    IN Sum(Len(obj))
\* query objects: up to MaxQueryColumns distinct keys, MaxOps operators in all
QueryObjects(maxColumns) ==
    UNION {{q \in [1..k -> [col : QueryColumns, val : QueryValues]] :
               /\ \A i, j \in 1..k : i # j => q[i].col # q[j].col
               /\ OpCount(q) <= MaxOps}
           : k \in 0..maxColumns}

\* ------------------------------------------------------------- createView
MaxKeyLength == 3
MaxViewCalls == 2

\* An element of a primaryKeys array: a column name, or (for a composite
\* partition key) an array of column names.
Plain(c) == [arr |-> FALSE, cols |-> <<c>>]
Group(cs) == [arr |-> TRUE, cols |-> cs]

\* Array.isArray(pk[0]) ? pk[0].concat(pk.slice(1)) : pk.slice(0)
FlattenFirst(pk) ==
    IF Len(pk) > 0 /\ pk[1].arr
    THEN [i \in 1..Len(pk[1].cols) |-> Plain(pk[1].cols[i])] \o Tail(pk)
    ELSE pk

\* Mutant: the look-up compares the first element only.
ContainsFirst(list, key) == ~key.arr /\ Len(list) > 0 /\ list[1] = key

\* list.indexOf(key) !== -1; an array is only ever equal to itself
Contains(list, key) == ~key.arr /\ \E i \in 1..Len(list) : list[i] = key

Mixed(primaryKeys, viewKeys) == [primaryKeys |-> primaryKeys, viewKeys |-> viewKeys]

\* Mutant: the look-up is made in the view's list as declared, not flattened.
RECURSIVE MixinDeclared(_, _)
MixinDeclared(modelKeys, acc) ==
    IF Len(modelKeys) = 0 THEN acc
    ELSE LET key == Head(modelKeys)
         IN MixinDeclared(Tail(modelKeys),
                IF Contains(acc.viewKeys, key) THEN acc
                ELSE Mixed(Append(acc.primaryKeys, key), Append(acc.viewKeys, key)))

\* modelPrimaryKeys.forEach: a key the flattened list lacks is pushed onto
\* view.primaryKeys and onto the flattened list.
RECURSIVE Mixin(_, _)
Mixin(modelKeys, acc) ==
    IF Len(modelKeys) = 0 THEN acc
    ELSE LET key == Head(modelKeys)
         IN Mixin(Tail(modelKeys),
                IF Contains(acc.primaryKeys, key) THEN acc
                ELSE Mixed(Append(acc.primaryKeys, key), Append(acc.viewKeys, key)))

\* array.filter(arrayUnique): the first occurrence of each element stays
RECURSIVE ArrayUnique(_)
ArrayUnique(list) ==
    IF Len(list) = 0 THEN <<>>
    ELSE LET front == ArrayUnique(SubSeq(list, 1, Len(list) - 1))
             last == list[Len(list)]
         IN IF \E i \in 1..(Len(list) - 1) : list[i] = last THEN front
            ELSE Append(front, last)

\* schema._qualifyPrimaryKeys(primaryKeys): every key of the list, its first
\* element flattened, is a declared column.
QualifyPrimaryKeys(pk) ==
    \A i \in 1..Len(FlattenFirst(pk)) :
        /\ ~FlattenFirst(pk)[i].arr
        /\ DataModel(FlattenFirst(pk)[i].cols[1]) # "undefined"

\* A view configuration: select and primaryKeys may be absent, orderBy is
\* absent or names a declared or an undeclared column.
ViewConfig(hasSelect, select, hasKeys, primaryKeys, orderBy) ==
    [hasSelect |-> hasSelect, select |-> select, hasKeys |-> hasKeys,
     primaryKeys |-> primaryKeys, orderBy |-> orderBy]

\* schema.qualifyView(viewName, viewConfig): the error it throws, or "none"
QualifyView(view) ==
    IF ~view.hasSelect /\ ~view.hasKeys THEN "ViewNeedsPrimaryKeys"
    ELSE IF view.hasSelect
            /\ \E i \in 1..Len(view.select) : DataModel(view.select[i].cols[1]) = "undefined"
    THEN "UndefinedSelectColumn"
    ELSE IF view.hasKeys /\ ~QualifyPrimaryKeys(view.primaryKeys) THEN "InvalidPrimaryKey"
    ELSE IF view.orderBy = "undeclared" THEN "UndefinedOrderByColumn"
    ELSE "none"

\* array.join(separator) as a sequence of tokens; an element that is itself
\* an array is written by Array.prototype.toString, its names joined by ','.
RECURSIVE Join(_, _)
Join(list, separator) ==
    IF Len(list) = 0 THEN <<>>
    ELSE LET e == Head(list)
             text == IF e.arr THEN Join([i \in 1..Len(e.cols) |-> Plain(e.cols[i])], ",")
                     ELSE e.cols
         IN IF Len(list) = 1 THEN text
            ELSE text \o <<separator>> \o Join(Tail(list), separator)

\* Mutant: the first element is joined like every other one.
CreatePartitionKeyQueryFlat(primaryKeyArray) ==
    <<"PRIMARY KEY (">> \o Join(primaryKeyArray, ", ") \o <<")">>

\* model._createPartitionKeyQuery(primaryKeyArray)
CreatePartitionKeyQuery(primaryKeyArray) ==
    <<"PRIMARY KEY (">>
    \o (IF Len(primaryKeyArray) > 0 /\ primaryKeyArray[1].arr
        THEN <<"(">>
             \o Join([i \in 1..Len(primaryKeyArray[1].cols)
                         |-> Plain(primaryKeyArray[1].cols[i])], ", ")
             \o <<")">>
             \o (IF Len(primaryKeyArray) > 1 THEN <<", ">> ELSE <<>>)
             \o Join(Tail(primaryKeyArray), ", ")
        ELSE Join(primaryKeyArray, ", "))
    \o <<")">>

\* The CREATE MATERIALIZED VIEW statement: the select list, the IS NOT NULL
\* columns, the list _createPartitionKeyQuery renders and its rendering, the
\* clustering order.
ViewQuery(viewName, view, primaryKeys) ==
    [view |-> viewName,
     select |-> IF view.hasSelect THEN ArrayUnique(view.select \o view.primaryKeys)
                ELSE view.primaryKeys,
     where |-> primaryKeys,
     key |-> view.primaryKeys,
     keyClause |-> CreatePartitionKeyQuery(view.primaryKeys),
     orderBy |-> view.orderBy # "none"]

\* the key lists the base table and the view are declared with: simple,
\* compound, and with a composite partition key
KeyColumns == {"username", "age", "name"}
Arrangements(k) ==
    {s \in [1..k -> KeyColumns] : \A i, j \in 1..k : i # j => s[i] # s[j]}
PlainKeys ==
    UNION {{[i \in 1..k |-> Plain(s[i])] : s \in Arrangements(k)}
           : k \in 1..MaxKeyLength}
CompositeKeys ==
    UNION {{<<Group(<<s[1], s[2]>>)>> \o [i \in 1..(k - 2) |-> Plain(s[i + 2])]
              : s \in Arrangements(k)}
           : k \in 2..MaxKeyLength}
KeyLists == PlainKeys \cup CompositeKeys
\* the base table's key lists: the partition key starts with username
ModelKeyLists == {pk \in KeyLists : pk[1].cols[1] = "username"}
ViewConfigs ==
    {ViewConfig(sel[1], sel[2], TRUE, pk, ob) :
        sel \in {<<FALSE, <<>>>>, <<TRUE, <<Plain("name")>>>>,
                 <<TRUE, <<Plain("username"), Plain("name")>>>>,
                 <<TRUE, <<Plain(UnknownColumn)>>>>},
        pk \in KeyLists \cup {<<>>, <<Plain(UnknownColumn)>>},
        ob \in {"none", "declared"}}
    \cup {ViewConfig(FALSE, <<>>, TRUE, pk, "undeclared") :
        pk \in KeyLists \cup {<<>>, <<Plain(UnknownColumn)>>}}
    \cup {ViewConfig(sel[1], sel[2], FALSE, <<>>, "none") :
        sel \in {<<FALSE, <<>>>>, <<TRUE, <<Plain("name")>>>>}}
ViewNames == {"byName", "byAge"}

ViewIdle ==
    /\ modelPrimaryKeys = <<Plain("username")>>
    /\ viewConfig = ViewConfig(FALSE, <<>>, FALSE, <<>>, "none")
    /\ views = {}
    /\ viewLog = <<>>

\* an operation of the caller on the instance; a callback names its call
Op(name) == <<name, "", 0>>
\* no ModelInstance has been constructed
InstColumns == {"hex", "names", "username", "tags"}
InstIdle ==
    /\ instance = [c \in InstColumns |-> "undefined"]
    /\ data = [c \in {} |-> "undefined"]
    /\ synced = FALSE
    /\ instPending = {}
    /\ instCalls = 0
    /\ instEdits = 0
    /\ instErr = "none"
    /\ lastSynced = [c \in InstColumns |-> "undefined"]
    /\ restored = FALSE
    /\ instKeys = <<Plain("names")>>
    /\ instOp = Op("none")
    /\ instWhere = [n \in {} |-> "undefined"]

NoCall == [op |-> "none"]
DmlIdle ==
    /\ inQuery = <<>>
    /\ call = NoCall
    /\ sent = <<>>
    /\ raised = "none"
    /\ delivered = <<>>
    /\ applied = 0

ConnIdle == ConnInit /\ listeners = {}

\* ---------------------------------------------- _buildQueryComponents alone
WhereInit ==
    /\ ConnIdle
    /\ ViewIdle
    /\ InstIdle
    /\ inQuery \in QueryObjects(MaxQueryColumns)
    /\ call = NoCall
    /\ sent = <<>>
    /\ raised = "none"
    /\ delivered = <<>>
    /\ applied = 0

\* model._buildQueryComponents(inQuery): the components are the result, an
\* exception leaves none.
CompileQuery ==
    /\ call = NoCall
    /\ LET c == BuildQueryComponents(inQuery)
       IN /\ call' = [op |-> "compile"]
          /\ raised' = c.err
          /\ sent' = IF c.err = "none"
                     THEN <<[where |-> c.where, values |-> c.values]>>
                     ELSE <<>>
    /\ UNCHANGED <<inQuery, delivered, applied>>
    /\ UNCHANGED <<connVars, viewVars, instVars>>

WhereNext == CompileQuery
SpecWhere == WhereInit /\ [][WhereNext]_vars


\* ---------------------------------------------------------- find / findOne
MaxRows == 2
LimitOption == 5

\* An argument of find / findOne, by what the overload resolution looks at:
\* null (falsy), the query object, an array (projection), an options object
\* or a function.  Options are ordinary properties, so a function can carry
\* them too; `wrap` marks the callback findOne passes to find, `user` whether
\* the callback it wraps is a function.
Arg(k) == [k |-> k, limit |-> 0, allowFiltering |-> FALSE, raw |-> FALSE,
           stream |-> FALSE, pipe |-> FALSE, findOne |-> FALSE,
           wrap |-> FALSE, user |-> FALSE]
NullArg == Arg("null")
QueryArg == Arg("query")
ProjectionArg == Arg("array")
CallbackArg == Arg("fn")
OptionsArgs ==
    {[Arg("opts") EXCEPT !.limit = l, !.allowFiltering = af, !.raw = r,
                         !.stream = (m = "stream"), !.pipe = (m = "pipe")] :
        l \in {0, LimitOption}, af \in BOOLEAN, r \in BOOLEAN,
        m \in {"execute", "stream", "pipe"}}

Truthy(a) == a.k # "null"
IsFunction(a) == a.k = "fn"
IsArray(a) == a.k = "array"

\* utils.getArgCount: the trailing falsy arguments do not count
GetArgCount(args) ==
    IF \E i \in 1..Len(args) : Truthy(args[i])
    THEN CHOOSE i \in 1..Len(args) :
            Truthy(args[i]) /\ \A j \in (i + 1)..Len(args) : ~Truthy(args[j])
    ELSE 0

\* [..].filter(Boolean)
RECURSIVE FilterTruthy(_)
FilterTruthy(args) ==
    IF Len(args) = 0 THEN <<>>
    ELSE IF Truthy(Head(args)) THEN <<Head(args)>> \o FilterTruthy(Tail(args))
    ELSE FilterTruthy(Tail(args))

\* the four declared parameters; a missing argument is undefined (falsy)
Pad(args) == [i \in 1..4 |-> IF i <= Len(args) THEN args[i] ELSE NullArg]

\* The own enumerable keys of the value passed as queryObject.
QueryOf(a) ==
    IF a.k = "query" THEN inQuery
    ELSE IF a.limit > 0 THEN <<[col |-> "limit", val |-> NumVal]>>
    ELSE <<>>

\* find(queryObject, projection, options, callback) up to the call of the
\* driver: the overload resolution, the callback check, the compilation and
\* the statement.
Find(args) ==
    LET a == Pad(args)
        argc == GetArgCount(args)
        callback == IF argc = 3 THEN a[3]
                    ELSE IF argc = 2 THEN a[2]
                    ELSE IF argc = 1 THEN a[1]
                    ELSE a[4]
        options == IF argc = 3 /\ ~IsArray(a[2]) THEN a[2] ELSE a[3]
        projection == IF argc = 3 /\ ~IsArray(a[2]) THEN NullArg
                      ELSE IF argc = 2 THEN NullArg
                      ELSE a[2]
        queryObject == IF argc = 1 THEN NullArg ELSE a[1]
        c == BuildQueryComponents(QueryOf(queryObject))
        hasOptions == Truthy(options)
    IN IF ~IsFunction(callback) THEN [err |-> "MissingCallback"]
       ELSE IF c.err # "none" THEN [err |-> c.err]
       ELSE [err |-> "none",
             stmt |-> [verb |-> "SELECT",
                       projection |-> Truthy(projection),
                       where |-> c.where,
                       whereKeyword |-> Len(c.where) > 0,
                       limit |-> IF hasOptions THEN options.limit ELSE 0,
                       allowFiltering |-> hasOptions /\ options.allowFiltering,
                       values |-> c.values],
             raw |-> hasOptions /\ options.raw,
             mode |-> IF hasOptions /\ options.stream THEN "stream"
                      ELSE IF hasOptions /\ options.pipe THEN "pipe"
                      ELSE "execute",
             callback |-> callback]

\* findOne(queryObject, projection, options, callback): the arguments it
\* applies find to.
FindOneArgs(args) ==
    LET a == Pad(args)
        argc == GetArgCount(args)
        callback == IF argc = 3 THEN a[3] ELSE IF argc = 2 THEN a[2] ELSE a[4]
        options0 == IF argc = 3 /\ ~IsArray(a[2]) THEN a[2] ELSE a[3]
        projection == IF argc = 3 /\ ~IsArray(a[2]) THEN NullArg
                      ELSE IF argc = 2 THEN NullArg
                      ELSE a[2]
        options == [(IF Truthy(options0) THEN options0 ELSE Arg("opts"))
                        EXCEPT !.limit = 1, !.findOne = TRUE]
        wrapper == [CallbackArg EXCEPT !.wrap = TRUE, !.user = IsFunction(callback)]
    IN FilterTruthy(<<a[1], projection, options, wrapper>>)

\* What a callback receives.
Delivery(err, res, n) == [err |-> err, res |-> res, n |-> n]

\* Mutant: the findOne wrapper passes find's result on as it is.
WrapResultUnshifted(d) == d

\* The callback findOne passes to find: an array result is shifted.
WrapResult(d) ==
    IF d.res \in {"instances", "rawrows"}
    THEN IF d.n = 0 THEN Delivery(d.err, "undefined", 0)
         ELSE Delivery(d.err, IF d.res = "instances" THEN "instance" ELSE "rawrow", 1)
    ELSE d

\* The callback of driver.execute in find: no rows is null, otherwise the rows
\* hydrated through the Factory, or the raw rows re-keyed.
FindResult(ok, rows, raw) ==
    IF ~ok THEN Delivery(TRUE, "undefined", 0)
    ELSE IF rows = 0 THEN Delivery(FALSE, "null", 0)
    ELSE IF ~raw THEN Delivery(FALSE, "instances", rows)
    ELSE Delivery(FALSE, "rawrows", rows)

\* driver.eachRow in find: every row goes to the callback by itself, then the
\* end callback passes only its error.
PipeResults(ok, rows) ==
    [i \in 1..rows |-> Delivery(FALSE, "rawrow", 1)]
    \o <<Delivery(~ok, "undefined", 0)>>

\* The deliveries as the caller sees them.
ToCaller(ds, callback) ==
    IF callback.wrap THEN [i \in 1..Len(ds) |-> WrapResult(ds[i])] ELSE ds

\* queries find and findOne are exercised with
SmallQueries ==
    {<<>>}
    \cup {<<[col |-> c, val |-> v]>> :
            c \in QueryColumns,
            v \in {StrVal, NumVal, UuidVal, NullVal, OpsVal(<<>>)}
                  \cup {OpsVal(<<e>>) : e \in OpEntries}}

\* the argument lists find and findOne are exercised with
ArgLists ==
    {<<QueryArg, CallbackArg>>, <<QueryArg, ProjectionArg, CallbackArg>>,
     <<QueryArg>>, <<QueryArg, ProjectionArg>>}
    \cup {<<QueryArg, o, CallbackArg>> : o \in OptionsArgs}
    \cup {<<QueryArg, ProjectionArg, o, CallbackArg>> : o \in OptionsArgs}
    \cup {<<QueryArg, NullArg, o, CallbackArg>> : o \in OptionsArgs}

FindInit ==
    /\ ConnIdle
    /\ ViewIdle
    /\ InstIdle
    /\ inQuery \in SmallQueries
    /\ call = NoCall
    /\ sent = <<>>
    /\ raised = "none"
    /\ delivered = <<>>
    /\ applied = 0

\* The call of find with the (resolved) plan p.
StartFind(op, args, p) ==
    /\ raised' = p.err
    /\ IF p.err # "none"
       THEN /\ call' = [op |-> op, args |-> args, state |-> "thrown"]
            /\ sent' = sent
       ELSE /\ call' = [op |-> op, args |-> args,
                        state |-> IF p.mode = "stream" THEN "streaming" ELSE "pending",
                        raw |-> p.raw, mode |-> p.mode, callback |-> p.callback,
                        limit |-> p.stmt.limit]
            /\ sent' = Append(sent, p.stmt)
    /\ UNCHANGED <<inQuery, delivered, applied>>

FindCall ==
    /\ call = NoCall
    /\ \E args \in ArgLists : StartFind("find", args, Find(args))
    /\ UNCHANGED <<connVars, viewVars, instVars>>

FindOneCall ==
    /\ call = NoCall
    /\ \E args \in ArgLists : StartFind("findOne", args, Find(FindOneArgs(args)))
    /\ UNCHANGED <<connVars, viewVars, instVars>>

\* The driver answers the SELECT: an error, or the matching rows up to LIMIT.
SelectReply ==
    /\ call.op \in {"find", "findOne"}
    /\ call.state = "pending"
    /\ \E ok \in BOOLEAN, rows \in 0..MaxRows :
          /\ call.limit > 0 => rows <= call.limit
          /\ ~ok => rows = 0
          /\ LET ds == IF call.mode = "pipe" THEN PipeResults(ok, rows)
                       ELSE <<FindResult(ok, rows, call.raw)>>
             IN IF call.callback.wrap /\ ~call.callback.user
                THEN \* the wrapper calls an undefined callback
                     /\ raised' = "TypeError"
                     /\ delivered' = delivered
                ELSE /\ delivered' = delivered \o ToCaller(ds, call.callback)
                     /\ raised' = raised
          /\ call' = [call EXCEPT !.state = IF ok THEN "answered" ELSE "failed"]
                        @@ [rows |-> rows]
    /\ UNCHANGED <<inQuery, sent, applied>>
    /\ UNCHANGED <<connVars, viewVars, instVars>>

FindNext == FindCall \/ FindOneCall \/ SelectReply
SpecFind == FindInit /\ [][FindNext]_vars


\* ----------------------------------------------------------- update / delete
MaxUpdateColumns == 2
MaxDeleteColumns == 2
MaxSetKeys == 2

\* TypeMap: the collection types are 1, 2, 3, every other declared type is
\* above 4; an undeclared column has no mapping (undefined compares false).
TypeMap(t) ==
    CASE t = "list" -> 1
      [] t = "set" -> 2
      [] t = "map" -> 3
      [] OTHER -> 5
IsListOrSet(col) ==
    DataModel(col) # "undefined" /\ TypeMap(DataModel(col)) < TypeMap("map")
IsList(col) ==
    DataModel(col) # "undefined" /\ TypeMap(DataModel(col)) = TypeMap("list")
IsMap(col) ==
    DataModel(col) # "undefined" /\ TypeMap(DataModel(col)) = TypeMap("map")

\* A value of an update object, by what update() looks at: null, an array, a
\* number, or an object with its own keys in order; each key carries the
\* number of keys of its operand (the indexes of a list `$set`).
UpdNull == [kind |-> "null", keys |-> <<>>]
UpdPlain == [kind |-> "plain", keys |-> <<>>]
UpdArray == [kind |-> "array", keys |-> <<>>]
UpdObject(keys) == [kind |-> "object", keys |-> keys]
UpdKey(k, n) == [k |-> k, n |-> n]

\* One entry of the SET list: the column it assigns and the form of its text.
SetClause(col, form, marks) == [col |-> col, form |-> form, marks |-> marks]
Sets(err, set, values) == [err |-> err, set |-> set, values |-> values]

\* update(): the loop over the actions of a list or set column.
RECURSIVE UpdateActions(_, _, _)
UpdateActions(col, keys, acc) ==
    IF Len(keys) = 0 THEN acc
    ELSE LET a == Head(keys)
             next ==
                IF a.k \in {"$append", "$add"}
                THEN Sets(acc.err, Append(acc.set, SetClause(col, "col = col + ?", 1)),
                          Append(acc.values, Bound(col, a.k, 0)))
                ELSE IF a.k = "$prepend"
                THEN Sets(acc.err, Append(acc.set, SetClause(col, "col = ? + col", 1)),
                          Append(acc.values, Bound(col, a.k, 0)))
                ELSE IF a.k = "$filter"
                THEN Sets(acc.err, Append(acc.set, SetClause(col, "col = col - ?", 1)),
                          Append(acc.values, Bound(col, a.k, 0)))
                ELSE IF a.k = "$set"
                THEN Sets(acc.err,
                          acc.set \o [i \in 1..a.n |-> SetClause(col, "col[index] = ?", 1)],
                          acc.values \o [i \in 1..a.n |-> Bound(col, a.k, i)])
                ELSE acc
         IN UpdateActions(col, Tail(keys), next)

\* update(): the loop over the keys of a map column's value without `$set`.
RECURSIVE UpdateMapKeys(_, _, _)
UpdateMapKeys(col, keys, acc) ==
    IF Len(keys) = 0 THEN acc
    ELSE UpdateMapKeys(col, Tail(keys),
            Sets(acc.err, Append(acc.set, SetClause(col, "col[?] = ?", 2)),
                 acc.values \o <<Bound(col, "key", Head(keys).k),
                                 Bound(col, "value", Head(keys).k)>>))

\* update(): the loop over the columns of the update object.
RECURSIVE UpdateColumns(_, _)
UpdateColumns(obj, acc) ==
    IF acc.err # "none" \/ Len(obj) = 0 THEN acc
    ELSE LET col == Head(obj).col
             v == Head(obj).val
             next ==
                IF IsListOrSet(col) /\ v.kind # "array"
                THEN UpdateActions(col, v.keys, acc)
                ELSE IF IsMap(col)
                THEN IF v.kind = "null" THEN Sets("TypeError", acc.set, acc.values)
                     ELSE IF \E i \in 1..Len(v.keys) : v.keys[i].k = "$set"
                     THEN Sets(acc.err, Append(acc.set, SetClause(col, "col=?", 1)),
                               Append(acc.values, Bound(col, "$set", 0)))
                     ELSE UpdateMapKeys(col, v.keys, acc)
                ELSE Sets(acc.err, Append(acc.set, SetClause(col, "col=?", 1)),
                          Append(acc.values, Bound(col, "=", 0)))
         IN UpdateColumns(Tail(obj), next)

Statement(verb, set, unset, where, usingTimestamp, values) ==
    [verb |-> verb, set |-> set, unset |-> unset, where |-> where,
     whereKeyword |-> TRUE, usingTimestamp |-> usingTimestamp, values |-> values]

\* Mutant: update drops the primary-key columns of the update object.
UpdateDroppingKeys(queryObject, updateObject) ==
    LET c == BuildQueryComponents(queryObject)
        kept == SelectSeq(updateObject, LAMBDA e : e.col \notin PrimaryKeyColumns)
        u == UpdateColumns(kept, Sets("none", <<>>, <<>>))
    IN IF c.err # "none" THEN [err |-> c.err]
       ELSE IF u.err # "none" THEN [err |-> u.err]
       ELSE [err |-> "none",
             stmt |-> Statement("UPDATE", u.set, <<>>, c.where, FALSE,
                                u.values \o c.values)]

\* Mutant: the values of the WHERE clause are bound first.
UpdateWhereFirst(queryObject, updateObject) ==
    LET c == BuildQueryComponents(queryObject)
        u == UpdateColumns(updateObject, Sets("none", <<>>, <<>>))
    IN IF c.err # "none" THEN [err |-> c.err]
       ELSE IF u.err # "none" THEN [err |-> u.err]
       ELSE [err |-> "none",
             stmt |-> Statement("UPDATE", u.set, <<>>, c.where, FALSE,
                                c.values \o u.values)]

\* update(queryObject, updateObject, callback) up to the call of the driver.
Update(queryObject, updateObject) ==
    LET c == BuildQueryComponents(queryObject)
        u == UpdateColumns(updateObject, Sets("none", <<>>, <<>>))
    IN IF c.err # "none" THEN [err |-> c.err]
       ELSE IF u.err # "none" THEN [err |-> u.err]
       ELSE [err |-> "none",
             stmt |-> Statement("UPDATE", u.set, <<>>, c.where, FALSE,
                                u.values \o c.values)]

\* A value of a delete object: null, a plain truthy value, or an array of n
\* indexes or keys.
DelNull == [kind |-> "null", n |-> 0]
DelPlain == [kind |-> "plain", n |-> 0]
DelArray(n) == [kind |-> "array", n |-> n]
DeleteArg(obj) == [Arg("object") EXCEPT !.user = FALSE] @@ [obj |-> obj]

\* Mutant: every key of the delete object is unset as a whole column.
DeleteColumnsWhole(obj, acc) ==
    Sets(acc.err,
         acc.set \o [i \in 1..Len(obj) |-> [col |-> obj[i].col, form |-> "col",
                                            n |-> 1, marks |-> 0]],
         acc.values)

\* delete(): the loop over the keys of the delete object.
RECURSIVE DeleteColumns(_, _)
DeleteColumns(obj, acc) ==
    IF Len(obj) = 0 THEN acc
    ELSE LET col == Head(obj).col
             v == Head(obj).val
             next ==
                IF DataModel(col) = "undefined" THEN acc
                ELSE IF IsList(col) /\ v.kind = "array"
                THEN Sets(acc.err,
                          Append(acc.set, [col |-> col, form |-> "col[index]",
                                           n |-> v.n, marks |-> 0]),
                          acc.values)
                ELSE IF IsMap(col) /\ v.kind = "array"
                THEN Sets(acc.err,
                          Append(acc.set, [col |-> col, form |-> "col[?]",
                                           n |-> v.n, marks |-> v.n]),
                          acc.values \o [i \in 1..v.n |-> Bound(col, "key", i)])
                ELSE Sets(acc.err,
                          Append(acc.set, [col |-> col, form |-> "col",
                                           n |-> 1, marks |-> 0]),
                          acc.values)
         IN DeleteColumns(Tail(obj), next)

\* Mutant: delete does not look at its callback.
DeleteUnchecked(args) ==
    LET a == Pad(args)
        argc == GetArgCount(args)
        deleteObject == IF argc = 2 THEN NullArg ELSE a[2]
        obj == IF deleteObject.k = "object" THEN deleteObject.obj ELSE <<>>
        c == BuildQueryComponents(QueryOf(a[1]))
        d == DeleteColumns(obj, Sets("none", <<>>, <<>>))
    IN IF c.err # "none" THEN [err |-> c.err]
       ELSE [err |-> "none",
             stmt |-> Statement("DELETE", <<>>, d.set, c.where,
                                \E i \in 1..Len(obj) :
                                    /\ obj[i].col = "$usingTimestamp"
                                    /\ obj[i].val.kind # "null",
                                d.values \o c.values)]

\* delete(queryObject, deleteObject, callback) up to the call of the driver.
Delete(args) ==
    LET a == Pad(args)
        argc == GetArgCount(args)
        callback == IF argc = 2 THEN a[2] ELSE a[3]
        deleteObject == IF argc = 2 THEN NullArg ELSE a[2]
        obj == IF deleteObject.k = "object" THEN deleteObject.obj ELSE <<>>
        c == BuildQueryComponents(QueryOf(a[1]))
        d == DeleteColumns(obj, Sets("none", <<>>, <<>>))
    IN IF ~IsFunction(callback) THEN [err |-> "MissingCallback"]
       ELSE IF c.err # "none" THEN [err |-> c.err]
       ELSE [err |-> "none",
             stmt |-> Statement("DELETE", <<>>, d.set, c.where,
                                \E i \in 1..Len(obj) :
                                    /\ obj[i].col = "$usingTimestamp"
                                    /\ obj[i].val.kind # "null",
                                d.values \o c.values)]

\* The engine refuses a statement that assigns a primary-key column.
EngineRejects(stmt) ==
    /\ stmt.verb = "UPDATE"
    /\ \E i \in 1..Len(stmt.set) : stmt.set[i].col \in PrimaryKeyColumns

\* the objects update and delete are exercised with
UpdateValues(col) ==
    IF IsListOrSet(col)
    THEN {UpdArray, UpdNull}
         \cup {UpdObject(<<UpdKey(k, 1)>>) :
                 k \in {"$append", "$add", "$prepend", "$filter", "$pull"}}
         \cup {UpdObject(<<UpdKey("$set", n)>>) : n \in 0..MaxSetKeys}
         \cup {UpdObject(<<UpdKey("$prepend", 1), UpdKey("$append", 1)>>),
               UpdObject(<<UpdKey("$set", MaxSetKeys), UpdKey("$filter", 1)>>),
               UpdObject(<<UpdKey("$filter", 1), UpdKey("$add", 1)>>)}
    ELSE IF IsMap(col)
    THEN {UpdNull, UpdObject(<<UpdKey("$set", 1)>>)}
         \cup {UpdObject([i \in 1..n |-> UpdKey(ToString(i), 1)]) : n \in 0..MaxSetKeys}
    ELSE {UpdPlain}
UpdateKeys == {"age", "name", "tags", "attrs", UnknownColumn}
UpdateEntries == {e \in [col : UpdateKeys, val : UNION {UpdateValues(c) : c \in UpdateKeys}] :
                    e.val \in UpdateValues(e.col)}
UpdateObjects ==
    UNION {{u \in [1..k -> UpdateEntries] :
               \A i, j \in 1..k : i # j => u[i].col # u[j].col}
           : k \in 0..MaxUpdateColumns}

DeleteKeys == {"name", "tags", "attrs", UnknownColumn, "$usingTimestamp"}
DeleteValues(col) ==
    IF IsList(col) \/ IsMap(col) THEN {DelPlain} \cup {DelArray(n) : n \in 1..MaxSetKeys}
    ELSE IF col = "$usingTimestamp" THEN {DelPlain, DelNull}
    ELSE {DelPlain}
DeleteEntries == {e \in [col : DeleteKeys, val : UNION {DeleteValues(c) : c \in DeleteKeys}] :
                    e.val \in DeleteValues(e.col)}
DeleteObjects ==
    UNION {{u \in [1..k -> DeleteEntries] :
               \A i, j \in 1..k : i # j => u[i].col # u[j].col}
           : k \in 1..MaxDeleteColumns}
DeleteArgLists ==
    {<<QueryArg, CallbackArg>>, <<QueryArg>>, <<QueryArg, NullArg, CallbackArg>>,
     <<>>, <<QueryArg, NullArg, ProjectionArg>>}
    \cup {<<QueryArg, DeleteArg(d), CallbackArg>> : d \in DeleteObjects}
    \cup {<<QueryArg, DeleteArg(d)>> : d \in DeleteObjects}

\* the query objects update and delete are exercised with: plain values only
MutateValues == {StrVal, NumVal, NullVal}
MutateQueries ==
    {<<>>}
    \cup {<<[col |-> c, val |-> v]>> : c \in QueryColumns, v \in MutateValues}
    \cup {q \in {<<[col |-> c1, val |-> v1], [col |-> c2, val |-> v2]>> :
                    c1 \in QueryColumns, c2 \in QueryColumns,
                    v1 \in MutateValues, v2 \in MutateValues} :
            q[1].col # q[2].col}

MutateInit ==
    /\ ConnIdle
    /\ ViewIdle
    /\ InstIdle
    /\ inQuery \in MutateQueries
    /\ call = NoCall
    /\ sent = <<>>
    /\ raised = "none"
    /\ delivered = <<>>
    /\ applied = 0

\* The call of update or delete with the compiled plan p.
StartMutate(op, obj, hasCallback, p) ==
    /\ raised' = p.err
    /\ IF p.err # "none"
       THEN /\ call' = [op |-> op, obj |-> obj, hasCallback |-> hasCallback,
                        state |-> "thrown"]
            /\ sent' = sent
       ELSE /\ call' = [op |-> op, obj |-> obj, hasCallback |-> hasCallback,
                        state |-> "pending", stmt |-> p.stmt]
            /\ sent' = Append(sent, p.stmt)
    /\ UNCHANGED <<inQuery, delivered, applied>>

UpdateCall ==
    /\ call = NoCall
    /\ \E upd \in UpdateObjects : StartMutate("update", upd, TRUE, Update(inQuery, upd))
    /\ UNCHANGED <<connVars, viewVars, instVars>>

DeleteCall ==
    /\ call = NoCall
    /\ \E args \in DeleteArgLists :
          StartMutate("delete",
                      IF Len(args) >= 2 /\ args[2].k = "object" THEN args[2].obj ELSE <<>>,
                      Len(args) > 0 /\ IsFunction(args[Len(args)]),
                      Delete(args))
    /\ UNCHANGED <<connVars, viewVars, instVars>>

\* The driver answers the statement: the engine's error, or the result of the
\* statement it applied.
MutateReply ==
    /\ call.op \in {"update", "delete"}
    /\ call.state = "pending"
    /\ \E ok \in BOOLEAN :
          /\ EngineRejects(call.stmt) => ~ok
          /\ delivered' = Append(delivered,
                                 Delivery(~ok, IF ok THEN "result" ELSE "undefined", 0))
          /\ applied' = IF ok THEN applied + 1 ELSE applied
          /\ call' = [call EXCEPT !.state = IF ok THEN "answered" ELSE "failed"]
    /\ UNCHANGED <<inQuery, sent, raised>>
    /\ UNCHANGED <<connVars, viewVars, instVars>>

MutateNext == UpdateCall \/ DeleteCall \/ MutateReply
SpecMutate == MutateInit /\ [][MutateNext]_vars

\* --------------------------------------------------- createView on a model
ViewInit ==
    /\ ConnIdle
    /\ DmlIdle
    /\ InstIdle
    /\ modelPrimaryKeys \in ModelKeyLists
    /\ viewConfig \in ViewConfigs
    /\ views = {}
    /\ viewLog = <<>>

\* One createView call as the caller saw it: the error thrown or handed to the
\* callback ("none" if neither), how the statement left, and the
\* configuration before and after.
ViewEntry(viewName, done, noQualify, err, outcome, before, after, query) ==
    [name |-> viewName, done |-> done, noQualify |-> noQualify, err |-> err,
     outcome |-> outcome, before |-> before, after |-> after, query |-> query]

\* Mutant: createView does not look the name up.
RegisteredNever(viewName, registry) == FALSE

\* model.views[viewName]: the name is registered on the table
Registered(viewName, registry) == viewName \in registry

\* model.createView(viewName, viewConfig, done, noQualify)
CreateView(viewName, done, noQualify) ==
    /\ Len(viewLog) < MaxViewCalls
    /\ LET view == viewConfig
           log(err, outcome, after, query) ==
               Append(viewLog, ViewEntry(viewName, done, noQualify, err, outcome,
                                         view, after, query))
       IN IF Registered(viewName, views)
          THEN /\ viewLog' = log("ViewAlreadyExists",
                                 IF done = "function" THEN "callback" ELSE "thrown",
                                 view, <<>>)
               /\ UNCHANGED <<views, viewConfig, queue, nextSeq, inflight>>
          ELSE /\ views' = views \cup {viewName}
               /\ IF ~noQualify /\ QualifyView(view) # "none"
                  THEN /\ viewLog' = log(QualifyView(view), "thrown", view, <<>>)
                       /\ UNCHANGED <<viewConfig, queue, nextSeq, inflight>>
                  ELSE IF ~view.hasKeys
                  THEN /\ viewLog' = log("TypeError", "thrown", view, <<>>)
                       /\ UNCHANGED <<viewConfig, queue, nextSeq, inflight>>
                  ELSE LET m == Mixin(FlattenFirst(modelPrimaryKeys),
                                      Mixed(FlattenFirst(view.primaryKeys),
                                            view.primaryKeys))
                           after == [view EXCEPT !.primaryKeys = m.viewKeys]
                           query == ViewQuery(viewName, after, m.primaryKeys)
                       IN /\ viewConfig' = after
                          /\ IF done = "false"
                             THEN /\ viewLog' = log("none", "returned", after, query)
                                  /\ UNCHANGED <<queue, nextSeq, inflight>>
                             ELSE IF connected
                             THEN /\ viewLog' = log("none", "executed", after, query)
                                  /\ inflight' = inflight
                                        \cup {[s |-> query, k |-> "view", n |-> 0]}
                                  /\ UNCHANGED <<queue, nextSeq>>
                             ELSE /\ viewLog' = log("none", "queued", after, query)
                                  /\ queue' = Append(queue, [seq |-> nextSeq + 1,
                                                             stmts |-> {query}])
                                  /\ nextSeq' = nextSeq + 1
                                  /\ UNCHANGED inflight
    /\ UNCHANGED modelPrimaryKeys
    /\ UNCHANGED noticeVars
    /\ UNCHANGED <<connected, enq, pendingConn, connectCalls, driverUp, drain,
                   drainCount, issued, completed, errored, ms, thrown>>

\* createView(viewName, config, false, noQualify): the statement is returned
CreateViewReturning ==
    /\ \E viewName \in ViewNames, noQualify \in BOOLEAN :
          CreateView(viewName, "false", noQualify)
    /\ UNCHANGED <<dmlVars, instVars>>
\* createView(viewName, config, callback, noQualify)
CreateViewExecuting ==
    /\ \E viewName \in ViewNames, noQualify \in BOOLEAN :
          CreateView(viewName, "function", noQualify)
    /\ UNCHANGED <<dmlVars, instVars>>

ViewNext == CreateViewReturning \/ CreateViewExecuting
SpecView == ViewInit /\ [][ViewNext]_vars

ModelCall ==
    /\ \E m \in Models, nv \in 0..MaxViews, ni \in 0..MaxIndexes, hasCb \in BOOLEAN :
          Model(m, nv, ni, hasCb)
    /\ UNCHANGED noticeVars
    /\ UNCHANGED <<dmlVars, viewVars, instVars>>
RebuildCall ==
    /\ \E m \in Models : Rebuild(m, FALSE)
    /\ UNCHANGED noticeVars
    /\ UNCHANGED <<dmlVars, viewVars, instVars>>
CreateIndexCall ==
    /\ \E m \in Models : CreateIndex(m)
    /\ UNCHANGED noticeVars
    /\ UNCHANGED <<dmlVars, viewVars, instVars>>
DriverCallback ==
    /\ \E r \in inflight, ok \in BOOLEAN : DriverComplete(r, ok)
    /\ UNCHANGED <<dmlVars, viewVars, instVars>>

ConnNext ==
    \/ Connect
    \/ DriverConnectErr
    \/ DriverConnectOk
    \/ ModelCall
    \/ RebuildCall
    \/ CreateIndexCall
    \/ DriverCallback

Init ==
    /\ ConnInit
    /\ listeners \in SUBSET {"error", "connect"}
    /\ DmlIdle
    /\ ViewIdle
    /\ InstIdle
Next == ConnNext
Spec == Init /\ [][Next]_vars

\* ------------------------------------------------------------------ claims
Issued(st) == issued[st] > 0
Completed(st) == completed[st] > 0
NoDrainActive == \A d \in DrainIds : ~drain[d].active

\* C1: of two statements pushed onto the pre-connection queue, the one pushed
\* earlier has finished executing before the one pushed later is handed to the
\* driver.
C1_QueueFifo ==
    \A s1, s2 \in Stmts :
        (enq[s1] > 0 /\ enq[s2] > enq[s1] /\ Issued(s2)) => Completed(s1)

\* C2: once the connection is established and nothing is in progress any more,
\* every statement that was pushed onto the queue has been executed exactly once.
C2_QueuedExecutedOnce ==
    (connected /\ pendingConn = 0 /\ NoDrainActive /\ inflight = {})
        => \A st \in Stmts : enq[st] > 0 => issued[st] = 1

\* C3: a model's CREATE TABLE has completed before any of its view statements
\* is issued, and all its view statements have completed before any of its
\* index statements is issued.
C3_BuildOrder ==
    \A m \in Models :
        /\ \A v \in ViewStmts(m, MaxViews) : Issued(v) => Completed(TableStmt(m))
        /\ \A i \in IndexStmts(m, MaxIndexes) :
              Issued(i) => /\ Completed(TableStmt(m))
                           /\ \A v \in ViewStmts(m, ms[m].nv) : Completed(v)

\* C3 witness: a deferred build with several views has reached its indexes.
C3_Witness ==
    \E m \in Models :
        /\ ms[m].nv >= 2
        /\ \E i \in IndexStmts(m, ms[m].ni) : Issued(i) /\ enq[i] > 0

\* All DDL of model m has been executed without error.
DdlExecuted(m) ==
    /\ ms[m].made
    /\ \A st \in {TableStmt(m)} \cup ViewStmts(m, ms[m].nv) \cup IndexStmts(m, ms[m].ni) :
          Completed(st) /\ st \notin errored

\* C4: once the DDL of a model has been executed, the callback passed to
\* model() has been called exactly once.
C4_ModelCallbackOnce ==
    \A m \in Models : (ms[m].hasCb /\ DdlExecuted(m)) => ms[m].cb = 1

\* C5: built is false before the first _buildSchema call and true ever after;
\* a further call throws and neither executes nor enqueues a statement.
C5_BuiltGuard ==
    [][\A m \in Models :
          /\ ms[m].built <=> ms[m].calls > 0
          /\ ms[m].built => ms'[m].built
          /\ ms'[m].calls > ms[m].calls => ms'[m].built
          /\ (ms[m].built /\ ms'[m].calls > ms[m].calls)
                => /\ thrown' = "AlreadyBuilt"
                   /\ queue' = queue
                   /\ inflight' = inflight
                   /\ issued' = issued]_vars

\* C5 witness: a second build was attempted and threw.
C5_Witness == \E m \in Models : ms[m].calls = 2 /\ thrown = "AlreadyBuilt"

\* ------------------------------------------------------------------ C9, C10
\* The number of `?` placeholders in the text of a clause.
MarkCount(text) == Cardinality({i \in 1..Len(text) : text[i] = "?"})

\* For each `?` of the WHERE text, in order, the column and operator of the
\* clause it stands in.
RECURSIVE MarkOwners(_)
MarkOwners(where) ==
    IF Len(where) = 0 THEN <<>>
    ELSE [k \in 1..MarkCount(Head(where).text) |-> <<Head(where).col, Head(where).op>>]
         \o MarkOwners(Tail(where))

\* The (column, operator) pairs of a query object in the encounter order of
\* its keys; a plain value is an equality.
RECURSIVE EncounterOrder(_)
EncounterOrder(obj) ==
    IF Len(obj) = 0 THEN <<>>
    ELSE LET col == Head(obj).col
             v == Head(obj).val
         IN (IF IsPlainValue(v) THEN << <<col, "=">> >>
             ELSE [i \in 1..Len(v.ops) |-> <<col, v.ops[i].op>>])
            \o EncounterOrder(Tail(obj))

\* C10: for every query object the compiler accepts, the WHERE clauses are in
\* the column-then-operator encounter order of the object's keys, and the i-th
\* `?` of the text is bound to the i-th entry of the value list, an entry that
\* comes from the clause the `?` stands in; so there are as many placeholders
\* as bound values, for `$in` with an array of any length too.
C10_PlaceholdersBound ==
    \A i \in 1..Len(sent) :
        (call.op = "compile") =>
            /\ [k \in 1..Len(sent[i].where) |->
                    <<sent[i].where[k].col, sent[i].where[k].op>>]
               = EncounterOrder(inQuery)
            /\ MarkOwners(sent[i].where)
               = [k \in 1..Len(sent[i].values) |->
                    <<sent[i].values[k][1], sent[i].values[k][2]>>]

HasUnknownKey(obj) ==
    \E i \in 1..Len(obj) :
        DataModel(obj[i].col) = "undefined" /\ obj[i].col # "$usingTimestamp"

\* C7: a query object, update object or delete object with a key that is not
\* a declared column makes the call raise UnknownColumn synchronously, before
\* any statement text is produced and before anything reaches the executor.
C7_UnknownColumnRejected ==
    (/\ call.op \in {"update", "delete"}
     /\ call.hasCallback
     /\ HasUnknownKey(inQuery) \/ HasUnknownKey(call.obj)) =>
        /\ raised = "UnknownColumn"
        /\ sent = <<>>

\* the update object names a primary-key column
NamesPrimaryKey(obj) == \E i \in 1..Len(obj) : obj[i].col \in PrimaryKeyColumns

\* C8: an update whose update object names a primary-key column is rejected
\* with an error that reaches the caller, and no row is changed: either the
\* call throws before anything is sent, or the statement goes to the executor
\* with the primary-key assignment still in its SET list, the engine refuses
\* it, and the engine's error is what the callback receives.
C8_PrimaryKeyUpdateRejected ==
    (call.op = "update" /\ NamesPrimaryKey(call.obj)) =>
        /\ applied = 0
        /\ call.state # "answered"
        /\ call.state = "thrown" => (raised # "none" /\ sent = <<>>)
        /\ call.state \in {"pending", "failed"} =>
              /\ \A i \in 1..Len(call.obj) :
                    call.obj[i].col \in PrimaryKeyColumns =>
                        \E j \in 1..Len(call.stmt.set) :
                            call.stmt.set[j].col = call.obj[i].col
              /\ sent = <<call.stmt>>
        /\ call.state = "failed" => delivered = << Delivery(TRUE, "undefined", 0) >>

\* update({username: 'foo', age: 30}, {age: 33}, callback) was sent, refused
\* by the engine, and the callback received the error.
C8_Witness ==
    /\ inQuery = << [col |-> "username", val |-> StrVal],
                    [col |-> "age", val |-> NumVal] >>
    /\ call.op = "update"
    /\ call.obj = << [col |-> "age", val |-> UpdPlain] >>
    /\ call.state = "failed"
    /\ delivered = << Delivery(TRUE, "undefined", 0) >>
    /\ applied = 0

\* ------------------------------------------------------------------------ C6
\* The columns of a key list, every array of it flattened, in order.
RECURSIVE ColumnsOf(_)
ColumnsOf(pk) ==
    IF Len(pk) = 0 THEN <<>> ELSE Head(pk).cols \o ColumnsOf(Tail(pk))
ColumnSet(pk) == {ColumnsOf(pk)[i] : i \in 1..Len(ColumnsOf(pk))}

\* createView went through: the statement was returned, queued or executed
ViewCreated(e) == e.outcome \in {"returned", "queued", "executed"}

\* C6: after createView, whatever the shapes of the base and view keys, the
\* view's primary-key list is its declared list followed by the base table's
\* primary-key columns it did not contain, in base declaration order and each
\* once; so every base key column is a view key column.
C6_ViewKeyInheritance ==
    \A n \in 1..Len(viewLog) :
        ViewCreated(viewLog[n]) =>
            LET declared == viewLog[n].before.primaryKeys
                effective == viewLog[n].after.primaryKeys
                missing == SelectSeq(ColumnsOf(modelPrimaryKeys),
                                     LAMBDA c : c \notin ColumnSet(declared))
            IN /\ effective = declared \o [i \in 1..Len(missing) |-> Plain(missing[i])]
               /\ ColumnSet(modelPrimaryKeys) \subseteq ColumnSet(effective)
               /\ n = Len(viewLog) => viewConfig.primaryKeys = effective

\* base ['username', 'age'], view declared with ['name']: the view's list is
\* now ['name', 'username', 'age'].
C6_Witness ==
    /\ modelPrimaryKeys = <<Plain("username"), Plain("age")>>
    /\ Len(viewLog) = 1
    /\ ViewCreated(viewLog[1])
    /\ viewLog[1].before.primaryKeys = <<Plain("name")>>
    /\ viewConfig.primaryKeys = <<Plain("name"), Plain("username"), Plain("age")>>

\* ----------------------------------------------------------------------- C11
\* The comparison a clause makes: the text between its column and its `?`.
Comparison(clause) == SubSeq(clause.text, 2, Len(clause.text) - 1)

\* C11: `$gt` compiles to `column>?` and `$lt` to `column<?`: the comparison
\* is strict, so a row whose value equals the bound is not matched.
C11_StrictComparisons ==
    \A i \in 1..Len(sent) :
        (call.op = "compile") =>
            \A k \in 1..Len(sent[i].where) :
                /\ sent[i].where[k].op = "$gt" => Comparison(sent[i].where[k]) = <<">">>
                /\ sent[i].where[k].op = "$lt" => Comparison(sent[i].where[k]) = <<"<">>

\* ----------------------------------------------------------------------- C12
\* C12: delete called without a callback function, whatever the query object
\* and with or without a delete object, throws MissingCallback synchronously
\* and hands no statement to the executor.
C12_DeleteNeedsCallback ==
    (call.op = "delete" /\ ~call.hasCallback) =>
        /\ raised = "MissingCallback"
        /\ call.state = "thrown"
        /\ sent = <<>>
        /\ delivered = <<>>

\* delete({username: 'foo', age: 30}, {name: 1}) threw MissingCallback.
C12_Witness ==
    /\ inQuery = << [col |-> "username", val |-> StrVal],
                    [col |-> "age", val |-> NumVal] >>
    /\ call.op = "delete"
    /\ ~call.hasCallback
    /\ call.obj = << [col |-> "name", val |-> DelPlain] >>
    /\ raised = "MissingCallback"
    /\ sent = <<>>

\* ----------------------------------------------------------------------- C13
\* C13: createView with a name that is already registered on the table fails
\* with ViewAlreadyExists, handed to the callback when there is one and thrown
\* otherwise; it executes and enqueues nothing and leaves the registry and
\* the view configuration as they were.
C13_DuplicateViewRejected ==
    [][(/\ Len(viewLog') = Len(viewLog) + 1
        /\ viewLog'[Len(viewLog')].name \in views) =>
           (/\ viewLog'[Len(viewLog')].err = "ViewAlreadyExists"
            /\ viewLog'[Len(viewLog')].outcome =
                  IF viewLog'[Len(viewLog')].done = "function" THEN "callback"
                  ELSE "thrown"
            /\ viewLog'[Len(viewLog')].query = <<>>
            /\ UNCHANGED <<views, viewConfig, queue, nextSeq, inflight>>)]_vars

\* byName was created, then createView('byName', config, callback) handed
\* ViewAlreadyExists to the callback.
C13_Witness ==
    /\ Len(viewLog) = 2
    /\ ViewCreated(viewLog[1])
    /\ viewLog[1].name = "byName"
    /\ viewLog[2].name = "byName"
    /\ viewLog[2].done = "function"
    /\ viewLog[2].err = "ViewAlreadyExists"
    /\ viewLog[2].outcome = "callback"
    /\ Len(queue) = 2

\* ----------------------------------------------------------------------- C14
\* The column names of a rendered list: join(', ') writes an array element as
\* its names separated by commas.
Rendered(list) == ColumnsOf(list)

\* C14: the statement createView generates selects the declared select list
\* followed by the view's (augmented) primary-key columns, each column once;
\* without a select list it selects the primary-key columns; whatever the
\* shapes of the view and base keys.
C14_ViewSelectList ==
    \A n \in 1..Len(viewLog) :
        ViewCreated(viewLog[n]) =>
            LET cfg == viewLog[n].after
                keys == ColumnsOf(cfg.primaryKeys)
            IN Rendered(viewLog[n].query.select)
               = IF cfg.hasSelect THEN ArrayUnique(ColumnsOf(cfg.select) \o keys)
                 ELSE keys

\* ----------------------------------------------------------------------- C15
\* the column names among the tokens of a clause, in order
Names(tokens) == SelectSeq(tokens, LAMBDA t : t \notin {"(", ")", ", ", ","})
Count(tokens, token) == Len(SelectSeq(tokens, LAMBDA t : t = token))

\* C15: the key clause of a generated statement lists every key column once,
\* in declaration order, between PRIMARY KEY ( and ), and parenthesises the
\* first nested array, and nothing else, as the partition key; a key
\* [a, b, c] gives PRIMARY KEY (a, b, c), [[a, b], c] gives
\* PRIMARY KEY ((a, b), c) and [[a, b]] gives PRIMARY KEY ((a, b)).
C15_KeyClause ==
    \A n \in 1..Len(viewLog) :
        ViewCreated(viewLog[n]) =>
            LET pk == viewLog[n].after.primaryKeys
                clause == viewLog[n].query.keyClause
                inner == SubSeq(clause, 2, Len(clause) - 1)
                composite == Len(pk) > 0 /\ pk[1].arr
                width == IF composite THEN Len(pk[1].cols) ELSE 0
            IN /\ clause[1] = "PRIMARY KEY (" /\ clause[Len(clause)] = ")"
               /\ Names(inner) = ColumnsOf(pk)
               /\ Count(inner, "(") = (IF composite THEN 1 ELSE 0)
               /\ Count(inner, ")") = Count(inner, "(")
               /\ composite =>
                      /\ inner[1] = "("
                      /\ inner[2 * width + 1] = ")"
                      /\ Names(SubSeq(inner, 2, 2 * width)) = pk[1].cols
               /\ pk = <<Plain("username"), Plain("age"), Plain("name")>> =>
                      clause = <<"PRIMARY KEY (", "username", ", ", "age", ", ", "name", ")">>
               /\ pk = <<Group(<<"username", "age">>), Plain("name")>> =>
                      clause = <<"PRIMARY KEY (", "(", "username", ", ", "age", ")",
                                 ", ", "name", ")">>
               /\ pk = <<Group(<<"username", "age">>)>> =>
                      clause = <<"PRIMARY KEY (", "(", "username", ", ", "age", ")", ")">>

C15_Witness ==
    /\ Len(viewLog) = 1
    /\ ViewCreated(viewLog[1])
    /\ modelPrimaryKeys = <<Plain("username"), Plain("name")>>
    /\ viewLog[1].before.primaryKeys = <<Group(<<"username", "age">>)>>
    /\ viewLog[1].after.primaryKeys = <<Group(<<"username", "age">>), Plain("name")>>
    /\ viewLog[1].query.keyClause
         = <<"PRIMARY KEY (", "(", "username", ", ", "age", ")", ", ", "name", ")">>

\* ----------------------------------------------------------------------- C16
\* The placeholders of a SET list and of a WHERE list, in text order: each one
\* names its fragment, the fragment's position in the list and its own
\* position in the fragment.
RECURSIVE SetSlots(_, _)
SetSlots(set, k) ==
    IF k > Len(set) THEN <<>>
    ELSE [p \in 1..set[k].marks |-> [col |-> set[k].col, form |-> set[k].form,
                                     at |-> k, pos |-> p]]
         \o SetSlots(set, k + 1)
RECURSIVE WhereSlots(_, _)
WhereSlots(where, k) ==
    IF k > Len(where) THEN <<>>
    ELSE [p \in 1..Count(where[k].text, "?") |-> [col |-> where[k].col,
                                                   op |-> where[k].op, pos |-> p]]
         \o WhereSlots(where, k + 1)

\* how many fragments of the same column and form come before fragment k
Earlier(set, k) ==
    Cardinality({j \in 1..(k - 1) : set[j].col = set[k].col /\ set[j].form = set[k].form})

\* the value a placeholder of the SET list is meant for
MeantFor(set, slot, value) ==
    /\ value[1] = slot.col
    /\ CASE slot.form = "col = col + ?" -> value[2] \in {"$append", "$add"} /\ value[3] = 0
         [] slot.form = "col = ? + col" -> value[2] = "$prepend" /\ value[3] = 0
         [] slot.form = "col = col - ?" -> value[2] = "$filter" /\ value[3] = 0
         [] slot.form = "col[index] = ?" ->
                value[2] = "$set" /\ value[3] = Earlier(set, slot.at) + 1
         [] slot.form = "col[?] = ?" ->
                /\ value[2] = (IF slot.pos = 1 THEN "key" ELSE "value")
                /\ value[3] = ToString(Earlier(set, slot.at) + 1)
         [] slot.form = "col=?" -> value[2] \in {"$set", "="} /\ value[3] = 0
         [] OTHER -> FALSE

\* the fragments a directive of a collection column is to emit, by the type of
\* the column; <<"none">> for a directive the type does not have
Prescribed(type, key) ==
    CASE type \in {"list", "set"} /\ key.k = "$filter" -> <<"col = col - ?">>
      [] type = "list" /\ key.k = "$append" -> <<"col = col + ?">>
      [] type = "list" /\ key.k = "$prepend" -> <<"col = ? + col">>
      [] type = "list" /\ key.k = "$set" -> [i \in 1..key.n |-> "col[index] = ?"]
      [] type = "set" /\ key.k = "$add" -> <<"col = col + ?">>
      [] type = "map" /\ key.k = "$set" -> <<"col=?">>
      [] type = "map" /\ key.k # "$set" -> <<"col[?] = ?">>
      [] OTHER -> <<"none">>
RECURSIVE PrescribedAll(_, _)
PrescribedAll(type, keys) ==
    IF Len(keys) = 0 THEN <<>>
    ELSE Prescribed(type, Head(keys)) \o PrescribedAll(type, Tail(keys))
\* the forms of the fragments of one column, in the order of the SET list
FormsOf(set, col) ==
    LET own == SelectSeq(set, LAMBDA c : c.col = col)
    IN [i \in 1..Len(own) |-> own[i].form]
IsCollection(col) == DataModel(col) \in {"list", "set", "map"}

ClearingValue(col, v) ==
    \/ IsListOrSet(col) /\ v.kind \in {"array", "null"}
    \/ IsMap(col) /\ (v.kind = "null" \/ (v.kind = "object" /\ Len(v.keys) = 0))

\* C17: an update that assigns an empty array or null to a list or set column,
\* or an empty object or null to a map column, compiles without error to a
\* statement whose SET list assigns that whole column.
C17_DirectClear ==
    (call.op = "update" /\ BuildQueryComponents(inQuery).err = "none") =>
        \A i \in 1..Len(call.obj) :
            ClearingValue(call.obj[i].col, call.obj[i].val) =>
                /\ raised = "none"
                /\ call.state # "thrown"
                /\ \E j \in 1..Len(call.stmt.set) :
                      /\ call.stmt.set[j].col = call.obj[i].col
                      /\ call.stmt.set[j].form = "col=?"

\* ----------------------------------------------------------------------- C18
\* the keys of a delete object that are declared columns, in order
DeclaredEntries(obj) == SelectSeq(obj, LAMBDA e : DataModel(e.col) # "undefined")
\* the keys bound by the fragments of an unset list, in order
RECURSIVE UnsetKeys(_)
UnsetKeys(unset) ==
    IF Len(unset) = 0 THEN <<>>
    ELSE [i \in 1..Head(unset).marks |-> Bound(Head(unset).col, "key", i)]
         \o UnsetKeys(Tail(unset))

\* C18: in the statement delete() sends, each declared column of the delete
\* object has one entry, in order: the whole column for the value 1, one
\* column[idx] per index for an array on a list column, one column[?] per key,
\* with the key bound, for an array on a map column; $usingTimestamp is never
\* a column fragment and sets USING TIMESTAMP on the statement; the keys bound
\* by the fragments come before the values of the WHERE clauses.
C18_DeleteFragments ==
    (call.op = "delete" /\ call.state \notin {"thrown"}) =>
        LET stmt == call.stmt
            declared == DeclaredEntries(call.obj)
            wslots == WhereSlots(stmt.where, 1)
            keys == UnsetKeys(stmt.unset)
        IN /\ Len(stmt.unset) = Len(declared)
           /\ \A i \in 1..Len(declared) :
                 LET col == declared[i].col
                     v == declared[i].val
                     u == stmt.unset[i]
                 IN /\ u.col = col
                    /\ v.kind = "plain" => (u.form = "col" /\ u.marks = 0)
                    /\ (IsList(col) /\ v.kind = "array") =>
                          (u.form = "col[index]" /\ u.n = v.n /\ u.marks = 0)
                    /\ (IsMap(col) /\ v.kind = "array") =>
                          (u.form = "col[?]" /\ u.n = v.n /\ u.marks = v.n)
           /\ \A i \in 1..Len(stmt.unset) : stmt.unset[i].col # "$usingTimestamp"
           /\ stmt.usingTimestamp
                 <=> \E i \in 1..Len(call.obj) :
                        call.obj[i].col = "$usingTimestamp" /\ call.obj[i].val.kind = "plain"
           /\ Len(stmt.values) = Len(keys) + Len(wslots)
           /\ SubSeq(stmt.values, 1, Len(keys)) = keys
           /\ \A i \in 1..Len(wslots) :
                 /\ stmt.values[Len(keys) + i][1] = wslots[i].col
                 /\ stmt.values[Len(keys) + i][2] = wslots[i].op

\* delete({username: 'foo'}, {attrs: [k1, k2], $usingTimestamp: n}, callback)
\* was sent.
C18_Witness ==
    /\ inQuery = << [col |-> "username", val |-> StrVal] >>
    /\ call.op = "delete"
    /\ call.state = "pending"
    /\ call.obj = << [col |-> "attrs", val |-> DelArray(2)],
                     [col |-> "$usingTimestamp", val |-> DelPlain] >>
    /\ call.stmt.usingTimestamp
    /\ Len(call.stmt.unset) = 1
    /\ call.stmt.values = << Bound("attrs", "key", 1), Bound("attrs", "key", 2),
                             Bound("username", "=", 0) >>

\* ----------------------------------------------------------------------- C19
\* C19: a statement compiled from an empty query object has no WHERE clause:
\* the WHERE keyword is written only when at least one condition follows it.
C19_NoEmptyWhere ==
    \A i \in 1..Len(sent) :
        (call.op \in {"update", "delete"} /\ sent[i].whereKeyword) =>
            Len(sent[i].where) > 0

\* ------------------------------------------------------------ ModelInstance
MaxInstanceCalls == 3
MaxInstanceEdits == 1

\* The schema of the instance's model: names is the primary key and required,
\* hex has a default, username is optional, tags is a list.
\* the primary keys the model is declared with: simple, compound, and with a
\* composite partition key
InstKeyLists ==
    {<<Plain("names")>>, <<Plain("names"), Plain("hex")>>,
     <<Group(<<"names", "hex">>), Plain("username")>>}
\* The property name an element of primaryKeys is used as: a column is its own
\* name, an array is the one name its columns joined by ',' make.
Name(key) == key.cols
\* model.primaries: one property per element of primaryKeys
Primaries(keys) == {Name(keys[i]) : i \in 1..Len(keys)}
\* the columns of the table's primary key
InstPrimaries(keys) == UNION {{keys[i].cols[j] : j \in 1..Len(keys[i].cols)} : i \in 1..Len(keys)}
InstRequired == {"names"}
InstDefaults(c) == IF c = "hex" THEN "default" ELSE "undefined"
InstType(c) == IF c = "tags" THEN "list" ELSE "text"
\* defaultTypeMap[type]: the empty collection a set, list or map starts as
DefaultTypeMap(type) == IF type \in {"set", "list", "map"} THEN "empty" ELSE "undefined"
\* the value of an own key, undefined for a key the object lacks
Get(object, c) == IF c \in DOMAIN object THEN object[c] ELSE "undefined"
\* object[name] for a property name: only a column's own name is a key
GetNamed(object, name) == IF Len(name) = 1 THEN Get(object, name[1]) ELSE "undefined"
\* Object.assign-like write of every key of src over dst
Assign(dst, src) ==
    [c \in DOMAIN dst \cup DOMAIN src |-> IF c \in DOMAIN src THEN src[c] ELSE dst[c]]

\* _prepareObject(bypass): the value stored for one column, with has = FALSE
\* when save[column] is never assigned.
PrepareColumn(object, c, bypass) ==
    LET objectValue == Get(object, c)
    IN IF bypass
       THEN [has |-> TRUE,
             v |-> IF objectValue = "undefined" /\ DefaultTypeMap(InstType(c)) # "undefined"
                   THEN DefaultTypeMap(InstType(c)) ELSE objectValue]
       ELSE IF objectValue # "undefined" THEN [has |-> TRUE, v |-> objectValue]
       ELSE IF InstDefaults(c) # "undefined" THEN [has |-> TRUE, v |-> InstDefaults(c)]
       ELSE IF DefaultTypeMap(InstType(c)) # "undefined"
       THEN [has |-> TRUE, v |-> DefaultTypeMap(InstType(c))]
       ELSE [has |-> FALSE, v |-> "undefined"]
\* _prepareObject throws for a required column without value or default
PrepareThrows(object, bypass) ==
    /\ ~bypass
    /\ \E c \in InstRequired : Get(object, c) = "undefined" /\ InstDefaults(c) = "undefined"
\* save, the object _prepareObject defines as __$$object
PrepareObject(object, bypass) ==
    [c \in {k \in InstColumns : PrepareColumn(object, k, bypass).has}
        |-> PrepareColumn(object, c, bypass).v]

InstValues == {"a", "b"}
InstObjects ==
    {o \in [InstColumns -> {"undefined", "a"}] :
        o["hex"] = "undefined" /\ o["tags"] = "undefined"}

\* no query object
NoWhere == [n \in {} |-> "undefined"]

\* new Model(object): the instance after its constructor returned
InstInit ==
    /\ ConnIdle
    /\ DmlIdle
    /\ ViewIdle
    /\ \E object \in InstObjects, bypass \in BOOLEAN :
          /\ ~PrepareThrows(object, bypass)
          /\ data = PrepareObject(object, bypass)
          /\ instance = [c \in InstColumns |-> Get(PrepareObject(object, bypass), c)]
          /\ lastSynced = [c \in InstColumns |-> Get(PrepareObject(object, bypass), c)]
    /\ instKeys \in InstKeyLists
    /\ synced = FALSE
    /\ instPending = {}
    /\ instCalls = 0
    /\ instEdits = 0
    /\ instErr = "none"
    /\ restored = FALSE
    /\ instOp = Op("new")
    /\ instWhere = NoWhere

\* instance[column] = value, by the caller
InstEdit ==
    /\ instEdits < MaxInstanceEdits
    /\ \E c \in InstColumns, v \in InstValues :
          /\ instance[c] # v
          /\ instance' = [instance EXCEPT ![c] = v]
    /\ instEdits' = instEdits + 1
    /\ restored' = FALSE
    /\ instOp' = Op("edit")
    /\ UNCHANGED <<data, synced, instPending, instCalls, instErr, lastSynced, instKeys,
                   instWhere>>
    /\ UNCHANGED <<connVars, dmlVars, viewVars>>

\* restore(): every key of __$$object is written back to the instance
Restore(columns, stored) ==
    [c \in InstColumns |-> IF c \in DOMAIN stored THEN stored[c] ELSE columns[c]]

InstRestore ==
    /\ instance' = Restore(instance, data)
    /\ restored' = TRUE
    /\ instOp' = Op("restore")
    /\ UNCHANGED <<data, synced, instPending, instCalls, instEdits, instErr, lastSynced,
                   instKeys, instWhere>>
    /\ UNCHANGED <<connVars, dmlVars, viewVars>>

\* A call of the model that has not called back: the statement's kind, the
\* object written (or the delete object) and the query object.
Pending(id, kind, obj, where) == [id |-> id, kind |-> kind, obj |-> obj, where |-> where]

\* _buildQueryComponents throws for a key that is no declared column and for
\* a value that is null or undefined
WhereThrows(where) ==
    \E n \in DOMAIN where : Len(n) # 1 \/ where[n] \in {"undefined", "null"}

\* sync(callback) up to model.insert: every column of the instance is inserted
Sync ==
    /\ instPending' = instPending
          \cup {Pending(instCalls + 1, "insert",
                        [c \in InstColumns |-> instance[c]], NoWhere)}
    /\ instCalls' = instCalls + 1
    /\ restored' = FALSE
    /\ UNCHANGED <<instance, data, synced, instEdits, instErr, lastSynced, instKeys,
                   instWhere>>

InstSync ==
    /\ instCalls < MaxInstanceCalls
    /\ Sync
    /\ instOp' = Op("sync")
    /\ UNCHANGED <<connVars, dmlVars, viewVars>>

\* save(): where[column] = data[column] for every column that is a property
\* of model.primaries
SaveWhere(keys, stored) ==
    [n \in {<<c>> : c \in {k \in InstColumns : <<k>> \in Primaries(keys)}}
        |-> GetNamed(stored, n)]

\* save(callback): sync() until a sync succeeded, then model.update of the
\* columns that differ from the stored values, where the stored primary key
\* is; model.update throws what _buildQueryComponents throws.
InstSave ==
    /\ instCalls < MaxInstanceCalls
    /\ IF ~synced THEN Sync
       ELSE LET update == [c \in {k \in InstColumns : Get(data, k) # instance[k]}
                              |-> instance[c]]
                where == SaveWhere(instKeys, data)
            IN /\ IF WhereThrows(where)
                  THEN instPending' = instPending /\ instErr' = "thrown"
                  ELSE /\ instPending' = instPending
                             \cup {Pending(instCalls + 1, "update", update, where)}
                       /\ instErr' = instErr
               /\ instWhere' = where
               /\ instCalls' = instCalls + 1
               /\ restored' = FALSE
               /\ UNCHANGED <<instance, data, synced, instEdits, lastSynced, instKeys>>
    /\ instOp' = Op("save")
    /\ UNCHANGED <<connVars, dmlVars, viewVars>>

\* delete(): where[key] = data[key] for every element of model.primaryKeys
DeleteWhere(keys, stored) ==
    [n \in Primaries(keys) |-> GetNamed(stored, n)]

\* the delete objects the instance is exercised with: none (the whole row),
\* or the value 1 against one or two columns
InstDeleteObjects ==
    {[c \in cs |-> "1"] : cs \in {{}, {"username"}, {"username", "tags"}, {"names"}}}

\* delete(deleteObject, callback) up to model.delete, which throws what
\* _buildQueryComponents throws; without a delete object the row is deleted.
InstDelete ==
    /\ instCalls < MaxInstanceCalls
    /\ \E deleteObject \in InstDeleteObjects :
          LET where == DeleteWhere(instKeys, data)
          IN /\ instWhere' = where
             /\ IF WhereThrows(where)
                THEN instPending' = instPending /\ instErr' = "thrown"
                ELSE /\ instPending' = instPending
                           \cup {Pending(instCalls + 1,
                                         IF DOMAIN deleteObject = {} THEN "deleteRow"
                                         ELSE "delete",
                                         deleteObject, where)}
                     /\ instErr' = instErr
    /\ instCalls' = instCalls + 1
    /\ restored' = FALSE
    /\ instOp' = Op("delete")
    /\ UNCHANGED <<instance, data, synced, instEdits, lastSynced, instKeys>>
    /\ UNCHANGED <<connVars, dmlVars, viewVars>>

\* The engine refuses an update that assigns a primary-key column or nothing,
\* an update whose WHERE does not name the primary key, an insert without a
\* value for a primary-key column, and a delete of a primary-key column.
InstRejects(r) ==
    \/ /\ r.kind = "update"
       /\ \/ DOMAIN r.obj = {}
          \/ DOMAIN r.obj \cap InstPrimaries(instKeys) # {}
          \/ DOMAIN r.where # {<<c>> : c \in InstPrimaries(instKeys)}
    \/ /\ r.kind = "insert"
       /\ \E c \in InstPrimaries(instKeys) : r.obj[c] \in {"undefined", "null"}
    \/ /\ r.kind = "delete"
       /\ DOMAIN r.obj \cap InstPrimaries(instKeys) # {}

\* what the callback of sync(), save() or delete() stores when the statement
\* went through: the values written, or null for every column of the delete
\* object
Stored(stored, r) ==
    IF r.kind \in {"insert", "update"} THEN Assign(stored, r.obj)
    ELSE Assign(stored, [c \in DOMAIN r.obj |-> "null"])

\* Mutant: a delete that went through leaves the flag as it is.
SyncedKept(flag, kind) == flag \/ kind = "insert"

\* __$$synced after a statement went through: sync() sets it, delete()
\* clears it, save()'s update leaves it
Synced(flag, kind) ==
    IF kind = "insert" THEN TRUE
    ELSE IF kind = "update" THEN flag
    ELSE FALSE

\* The callback sync(), save() and delete() hand to the model: without an
\* error the written values are stored (a sync sets __$$synced, a delete
\* clears it), then the caller's callback receives err.
InstReply ==
    /\ \E r \in instPending, ok \in BOOLEAN :
          /\ InstRejects(r) => ~ok
          /\ instPending' = instPending \ {r}
          /\ IF ok
             THEN /\ data' = Stored(data, r)
                  /\ lastSynced' = Stored(lastSynced, r)
                  /\ synced' = Synced(synced, r.kind)
                  /\ instErr' = "none"
                  /\ instOp' = <<"done", r.kind, r.id>>
             ELSE /\ instErr' = "error"
                  /\ instOp' = <<"failed", r.kind, r.id>>
                  /\ UNCHANGED <<data, lastSynced, synced>>
    /\ restored' = FALSE
    /\ UNCHANGED <<instance, instCalls, instEdits, instKeys, instWhere>>
    /\ UNCHANGED <<connVars, dmlVars, viewVars>>

InstNext == InstEdit \/ InstRestore \/ InstSync \/ InstSave \/ InstDelete \/ InstReply
SpecInstance == InstInit /\ [][InstNext]_vars

\* ----------------------------------------------------------------------- C20
\* C20: whatever edits and failed save or sync calls came before, restore()
\* leaves every column of the instance at the value it had at the last
\* successful write to the database, or at construction if none succeeded.
C20_RestoreLastSynced ==
    restored => \A c \in InstColumns : instance[c] = lastSynced[c]

\* ----------------------------------------------------------------------- C21
\* C21: when a delete(deleteObject, callback) that names columns goes through,
\* every named column is null on the instance and in the data store, and no
\* other column of either has changed.
C21_DeleteNullsColumns ==
    [][\A r \in instPending :
          (instPending' = instPending \ {r} /\ instOp' = <<"done", "delete", r.id>>) =>
              /\ \A c \in DOMAIN r.obj :
                    instance'[c] = "null" /\ Get(data', c) = "null"
              /\ \A c \in InstColumns \ DOMAIN r.obj :
                    /\ instance'[c] = instance[c]
                    /\ Get(data', c) = Get(data, c)
                    /\ (c \in DOMAIN data') = (c \in DOMAIN data)]_vars

\* ----------------------------------------------------------------------- C27
\* the query object that names the primary-key columns, each with its stored
\* value
KeyQuery(keys, stored) ==
    [n \in {<<c>> : c \in InstPrimaries(keys)} |-> Get(stored, n[1])]

\* C27: for a simple, a compound and a composite primary key, the query
\* object save() builds for its update and the one delete() builds name
\* exactly the primary-key columns, each with its value in the data store.
C27_KeyQueryObject ==
    (instOp = Op("delete") \/ (instOp = Op("save") /\ synced)) =>
        instWhere = KeyQuery(instKeys, data)

\* ----------------------------------------------------------------------- C26
\* the call just made handed a statement of this kind to the model
SaveIssued(kind) ==
    \E r \in instPending' \ instPending : r.kind = kind /\ r.id = instCalls'

\* C26: __$$synced is false at construction and after a delete that went
\* through, becomes true only when an insert went through, and is left alone
\* by every operation that failed or threw; save() issues an INSERT exactly
\* when the flag is false and an UPDATE exactly when it is true.
C26_SyncedFlag ==
    /\ ~synced
    /\ [][/\ (instOp'[1] = "done" /\ instOp'[2] \in {"delete", "deleteRow"}) => ~synced'
          /\ (~synced /\ synced') => (instOp'[1] = "done" /\ instOp'[2] = "insert")
          /\ (instOp'[1] = "failed" \/ instErr' = "thrown") => synced' = synced
          /\ instOp' = Op("save") =>
                /\ ~synced <=> SaveIssued("insert")
                /\ synced <=> SaveIssued("update")]_vars

\* save() went through, delete({username: 1}) went through, and the next
\* save() issued an INSERT.
C26_Witness ==
    /\ instOp = Op("save")
    /\ instCalls = 3
    /\ ~synced
    /\ Get(data, "username") = "null"
    /\ \E r \in instPending : r.id = 3 /\ r.kind = "insert"

\* ----------------------------------------------------------------------- C22
\* how often the error of statement st was handed to somebody
ReportCount(st) ==
    reports[st].caller + reports[st].connectCallback + reports[st].errorEvent

\* C22: the error of every statement the engine refused, executed directly or
\* from the pre-connection queue, has been reported exactly once: to a
\* callback when there is one, to the 'error' listeners otherwise.
C22_ErrorReportedOnce ==
    \A st \in errored :
        /\ ReportCount(st) = 1
        /\ reports[st].errorEvent = 1 =>
              reports[st].caller + reports[st].connectCallback = 0

\* ----------------------------------------------------------------------- C23
\* C23: CREATE KEYSPACE is the first entry of the queue of a new connection,
\* and it has completed before any CREATE TABLE, CREATE MATERIALIZED VIEW or
\* CREATE INDEX statement of a model is handed to the driver.
C23_KeyspaceFirst ==
    /\ enq[KeyspaceStmt] = 1
    /\ \A st \in Stmts \ {KeyspaceStmt} : Issued(st) => Completed(KeyspaceStmt)

\* ----------------------------------------------------------------------- C24
\* C24: whenever connected is true the pre-connection queue is empty and every
\* statement that was ever pushed onto it has completed, under every
\* interleaving of connect() calls, model() calls and driver completions.
C24_ConnectedMeansDrained ==
    connected =>
        /\ Len(queue) = 0
        /\ \A st \in Stmts : enq[st] > 0 => Completed(st)

\* ----------------------------------------------------------------------- C25
\* the step is the failure of request r, which an eachSeries run over the
\* spliced queue was waiting for
DrainFails(r) ==
    /\ r \in inflight
    /\ DrainWaits(r)
    /\ inflight' = inflight \ {r}
    /\ errored' = errored \cup {r.s}
    /\ completed'[r.s] = completed[r.s] + 1
    /\ drain'[r.n] # drain[r.n]
    /\ r.s \notin errored

\* what the failure of a queued statement does besides touching connected
DrainFailureHandled(r) ==
    /\ issued' = issued
    /\ ~drain'[r.n].active
    /\ drain'[r.n].rest = <<>>
    /\ queue' = queue
    /\ notices'.connectEvent = notices.connectEvent
    /\ notices'.callbackOk = notices.callbackOk
    /\ notices'.callbackErr = notices.callbackErr + (IF drainCb[r.n] THEN 1 ELSE 0)
    /\ notices'.errorEvent = notices.errorEvent + (IF "error" \in listeners THEN 1 ELSE 0)

ValidationErrors ==
    {"ViewNeedsPrimaryKeys", "UndefinedSelectColumn", "InvalidPrimaryKey",
     "UndefinedOrderByColumn"}

\* C28: a createView call that fails the validation of its configuration
\* leaves the table's registered views as they were, so that the name can
\* still be used by a later createView.
C28_FailedValidationRegistersNothing ==
    [][(/\ Len(viewLog') = Len(viewLog) + 1
        /\ viewLog'[Len(viewLog')].err \in ValidationErrors) =>
           views' = views]_vars

\* ----------------------------------------------------------------------- C29
\* C29: every configuration schema.qualifyView accepts is turned by
\* createView into a statement, nothing is thrown, and the statement's key
\* clause names every primary-key column of the base table.
C29_AcceptedConfigBuilds ==
    \A n \in 1..Len(viewLog) :
        (/\ ~viewLog[n].noQualify
         /\ QualifyView(viewLog[n].before) = "none"
         /\ viewLog[n].err # "ViewAlreadyExists") =>
            /\ ViewCreated(viewLog[n])
            /\ viewLog[n].err = "none"
            /\ \A c \in ColumnSet(modelPrimaryKeys) :
                  Count(viewLog[n].query.keyClause, c) >= 1

\* ----------------------------------------------------------------------- C30
\* createView's key augmentation applied to a configuration
Augmented(view) ==
    [view EXCEPT !.primaryKeys =
        Mixin(FlattenFirst(modelPrimaryKeys),
              Mixed(FlattenFirst(view.primaryKeys), view.primaryKeys)).viewKeys]

\* C30: the key augmentation of createView appends nothing to a
\* configuration it has already augmented (computed again on the result of
\* every call, and observed when the configuration is used for a second
\* view), and no createView call changes the base table's primaryKeys.
C30_InheritanceIdempotent ==
    /\ modelPrimaryKeys \in ModelKeyLists
    /\ [][/\ modelPrimaryKeys' = modelPrimaryKeys
          /\ \A n \in 1..Len(viewLog') :
                ViewCreated(viewLog'[n]) =>
                    /\ Augmented(viewLog'[n].after) = viewLog'[n].after
                    /\ \A k \in 1..(n - 1) :
                          ViewCreated(viewLog'[k]) =>
                              viewLog'[n].after = viewLog'[k].after]_vars

\* A configuration keyed by age on a table keyed by (username, name) was used
\* for byName, which appended username and name, and then for byAge, which
\* appended nothing.
C30_Witness ==
    /\ Len(viewLog) = 2
    /\ modelPrimaryKeys = <<Plain("username"), Plain("name")>>
    /\ ViewCreated(viewLog[1]) /\ ViewCreated(viewLog[2])
    /\ viewLog[1].name = "byName" /\ viewLog[2].name = "byAge"
    /\ viewLog[1].before.primaryKeys = <<Plain("age")>>
    /\ viewLog[1].after.primaryKeys = <<Plain("age"), Plain("username"), Plain("name")>>
    /\ viewLog[2].before = viewLog[1].after
    /\ viewLog[2].after = viewLog[2].before
    /\ viewConfig = viewLog[2].after

====
